---- MODULE Spec2Model ----
(***************************************************************************)
(* rkik: probe orchestration layer.                                        *)
(*   - services/query.rs     parse_target, parse_port_strict, query_one    *)
(*   - adapters/resolver.rs  resolve_ip                                    *)
(*   - services/compare.rs   compare_many (join_all fan-out)               *)
(*   - bin/rkik.rs           main (validation, compare loop), query_loop,  *)
(*                           plugin verdict, handle_error                  *)
(*   - stats.rs              compute_stats                                 *)
(*   - services/ptp_query.rs, adapters/ptp_client.rs  query_target         *)
(* Strings are sequences of one-character strings.  Offsets and round trip *)
(* times are binary64 values (sign, 53-bit mantissa, exponent) with round  *)
(* to nearest even; thresholds and the interval are whole numbers.         *)
(***************************************************************************)
EXTENDS Integers, Sequences, FiniteSets, TLC

(* ------------------------------ bounds --------------------------------- *)
MaxCount == 2
MaxOff == 2
MaxTargets == 2
MaxLen == 3

(* --------------------------- program constants ------------------------- *)
DefaultCount == 1
DefaultInterval == 1
DefaultNtpPort == 123
U16Max == 65535
DefaultPtpEventPort == 319
DefaultPtpGeneralPort == 320
DefaultPtpDomain == 0

(* ------------------------------ Option / Result ------------------------ *)
None == <<>>
Some(v) == <<v>>
IsSome(o) == o # <<>>
Unwrap(o) == o[1]

Ok(v) == [ok |-> TRUE, val |-> v]
Err(k, m) == [ok |-> FALSE, kind |-> k, msg |-> m]

(* ------------------------------ strings -------------------------------- *)
Digits == {"0", "1", "2", "3", "4", "5", "6", "7", "8", "9"}

DigitVal(c) ==
    CASE c = "0" -> 0 [] c = "1" -> 1 [] c = "2" -> 2 [] c = "3" -> 3
      [] c = "4" -> 4 [] c = "5" -> 5 [] c = "6" -> 6 [] c = "7" -> 7
      [] c = "8" -> 8 [] c = "9" -> 9

(* char::is_whitespace: the code points with the White_Space property.    *)
(* A code point that has no escape in a string is written by its number.   *)
WhiteSpace ==
    {" ", "\t", "\n", "U+000B", "\f", "\r", "U+0085", "U+00A0", "U+1680",
     "U+2000", "U+2001", "U+2002", "U+2003", "U+2004", "U+2005", "U+2006",
     "U+2007", "U+2008", "U+2009", "U+200A", "U+2028", "U+2029", "U+202F",
     "U+205F", "U+3000"}

IsSpace(c) == c \in WhiteSpace

RECURSIVE TrimStart(_)
TrimStart(s) ==
    IF s # <<>> /\ IsSpace(Head(s)) THEN TrimStart(Tail(s)) ELSE s

RECURSIVE TrimEnd(_)
TrimEnd(s) ==
    IF s # <<>> /\ IsSpace(s[Len(s)])
    THEN TrimEnd(SubSeq(s, 1, Len(s) - 1))
    ELSE s

Trim(s) == TrimEnd(TrimStart(s))

(* u32::from_str: optional '+', then one or more decimal digits, the value *)
(* must fit in 32 bits.  Returns <<>> on error, <<value>> otherwise.       *)
(* The checker's integers are 32-bit signed, so the 32-bit unsigned bound  *)
(* is tested on the digit string, and a value above U16Max is carried as   *)
(* U16Max + 1 (parse_port_strict only tests raw = 0 and raw > U16Max).     *)
U32MaxDigits == <<4, 2, 9, 4, 9, 6, 7, 2, 9, 5>>

RECURSIVE StripZeros(_)
StripZeros(s) ==
    IF s # <<>> /\ Head(s) = "0" THEN StripZeros(Tail(s)) ELSE s

RECURSIVE DigitsGreater(_, _)
DigitsGreater(s, bound) ==
    IF s = <<>> THEN FALSE
    ELSE IF DigitVal(Head(s)) # Head(bound) THEN DigitVal(Head(s)) > Head(bound)
    ELSE DigitsGreater(Tail(s), Tail(bound))

ExceedsU32(body) ==
    LET d == StripZeros(body)
    IN  \/ Len(d) > Len(U32MaxDigits)
        \/ Len(d) = Len(U32MaxDigits) /\ DigitsGreater(d, U32MaxDigits)

RECURSIVE DecimalValue(_, _)
DecimalValue(s, acc) ==
    IF s = <<>> THEN acc
    ELSE LET v == acc * 10 + DigitVal(Head(s))
         IN  DecimalValue(Tail(s), IF v > U16Max THEN U16Max + 1 ELSE v)

u32_from_str(s) ==
    LET body == IF s # <<>> /\ Head(s) = "+" THEN Tail(s) ELSE s
    IN  IF body = <<>> THEN None
        ELSE IF \E i \in 1..Len(body) : body[i] \notin Digits THEN None
        ELSE IF ExceedsU32(body) THEN None
        ELSE Some(DecimalValue(body, 0))

parse_port_lenient(s) ==
    LET raw == u32_from_str(s)
    IN  IF ~IsSome(raw) THEN Err("Other", "invalid port")
        ELSE IF Unwrap(raw) > U16Max THEN Err("Other", "port out of range")
        ELSE Ok(Unwrap(raw))

parse_port_strict(s) ==
    LET raw == u32_from_str(s)
    IN  IF ~IsSome(raw) THEN Err("Other", "invalid port")
        ELSE IF Unwrap(raw) = 0 \/ Unwrap(raw) > U16Max
             THEN Err("Other", "port out of range")
        ELSE Ok(Unwrap(raw))

colon_count_any(s) == IF \E i \in 1..Len(s) : s[i] = ":" THEN 1 ELSE 0

colon_count(s) == Cardinality({i \in 1..Len(s) : s[i] = ":"})

(* str::find(']'): index of the first ']' or 0 when there is none *)
FindBracket(s) ==
    IF \E i \in 1..Len(s) : s[i] = "]"
    THEN CHOOSE i \in 1..Len(s) : s[i] = "]" /\ \A j \in 1..(i - 1) : s[j] # "]"
    ELSE 0

(* position of the last ':' (rsplitn(2, ':')) *)
LastColon(s) ==
    CHOOSE i \in 1..Len(s) : s[i] = ":" /\ \A j \in (i + 1)..Len(s) : s[j] # ":"

ParsedTarget(h, p, v6) == [host |-> h, port |-> p, is_ipv6_literal |-> v6]

parse_target(input) ==
    LET s == Trim(input)
    IN  IF s = <<>> THEN Err("Other", "empty target")
        ELSE IF Head(s) = "["
        THEN LET rest == Tail(s)
                 bracket_pos == FindBracket(rest)
             IN  IF bracket_pos = 0 THEN Err("Other", "missing closing bracket")
                 ELSE LET host == SubSeq(rest, 1, bracket_pos - 1)
                          tail == SubSeq(rest, bracket_pos + 1, Len(rest))
                      IN  IF tail # <<>> /\ Head(tail) = ":"
                          THEN LET p == parse_port_strict(Tail(tail))
                               IN  IF p.ok
                                   THEN Ok(ParsedTarget(host, Some(p.val), TRUE))
                                   ELSE p
                          ELSE IF tail = <<>>
                          THEN Ok(ParsedTarget(host, None, TRUE))
                          ELSE Err("Other", "unexpected trailing characters")
        ELSE IF colon_count(s) = 0 THEN Ok(ParsedTarget(s, None, FALSE))
        ELSE IF colon_count(s) = 1
        THEN LET c == LastColon(s)
                 port_str == SubSeq(s, c + 1, Len(s))
                 host == SubSeq(s, 1, c - 1)
             IN  IF host = <<>> THEN Err("Other", "missing host before port")
                 ELSE LET p == parse_port_strict(port_str)
                      IN  IF p.ok
                          THEN Ok(ParsedTarget(host, Some(p.val), FALSE))
                          ELSE p
        ELSE Ok(ParsedTarget(s, None, TRUE))

(* ------------------------------ f64 ------------------------------------ *)
(* IEEE 754 binary64 arithmetic, as far as compute_stats and the threshold *)
(* tests use it: +, / by a count, min, max, abs, comparison, with rounding *)
(* to nearest, ties to even.  A finite non-zero value is                   *)
(* sign * mant * 2^exp with mant a natural number of exactly MantissaBits  *)
(* bits.  Naturals of that size exceed the checker's integers, so they are *)
(* little-endian sequences of limbs below LimbBase with no high zero limb. *)
(* Zero has no sign here (-0.0 = 0.0 in every comparison); overflow and    *)
(* subnormals are outside the values used.                                 *)
LimbBits == 15
LimbBase == 32768
MantissaBits == 53

RECURSIVE NatNorm(_)
NatNorm(a) ==
    IF a # <<>> /\ a[Len(a)] = 0 THEN NatNorm(SubSeq(a, 1, Len(a) - 1)) ELSE a

RECURSIVE NatAddC(_, _, _)
NatAddC(a, b, c) ==
    IF a = <<>> /\ b = <<>> THEN (IF c = 0 THEN <<>> ELSE <<c>>)
    ELSE LET x == (IF a = <<>> THEN 0 ELSE Head(a)) + (IF b = <<>> THEN 0 ELSE Head(b)) + c
         IN  <<x % LimbBase>> \o NatAddC(IF a = <<>> THEN <<>> ELSE Tail(a),
                                         IF b = <<>> THEN <<>> ELSE Tail(b),
                                         x \div LimbBase)

NatAdd(a, b) == NatAddC(a, b, 0)

(* a - b for a >= b *)
RECURSIVE NatSubB(_, _, _)
NatSubB(a, b, borrow) ==
    IF a = <<>> THEN <<>>
    ELSE LET x == Head(a) - (IF b = <<>> THEN 0 ELSE Head(b)) - borrow
         IN  <<IF x < 0 THEN x + LimbBase ELSE x>> \o
                 NatSubB(Tail(a), IF b = <<>> THEN <<>> ELSE Tail(b),
                         IF x < 0 THEN 1 ELSE 0)

NatSub(a, b) == NatNorm(NatSubB(a, b, 0))

RECURSIVE NatLessFrom(_, _, _)
NatLessFrom(a, b, i) ==
    IF i = 0 THEN FALSE
    ELSE IF a[i] # b[i] THEN a[i] < b[i]
    ELSE NatLessFrom(a, b, i - 1)

NatLess(a, b) ==
    IF Len(a) # Len(b) THEN Len(a) < Len(b) ELSE NatLessFrom(a, b, Len(a))

RECURSIVE NatMulSmallC(_, _, _)
NatMulSmallC(a, m, c) ==
    IF a = <<>> THEN (IF c = 0 THEN <<>> ELSE <<c>>)
    ELSE LET x == Head(a) * m + c
         IN  <<x % LimbBase>> \o NatMulSmallC(Tail(a), m, x \div LimbBase)

(* a * m for m below LimbBase *)
NatMulSmall(a, m) == NatNorm(NatMulSmallC(a, m, 0))

(* quotient and remainder of a by m, 0 < m <= LimbBase, from the top limb *)
RECURSIVE NatDivSmallR(_, _, _, _)
NatDivSmallR(a, m, i, rem) ==
    IF i = 0 THEN [q |-> <<>>, r |-> rem]
    ELSE LET cur == rem * LimbBase + a[i]
             rest == NatDivSmallR(a, m, i - 1, cur % m)
         IN  [q |-> Append(rest.q, cur \div m), r |-> rest.r]

NatDivSmall(a, m) ==
    LET d == NatDivSmallR(a, m, Len(a), 0) IN [q |-> NatNorm(d.q), r |-> d.r]

NatShiftLeft(a, k) ==
    IF a = <<>> THEN <<>>
    ELSE [i \in 1..(k \div LimbBits) |-> 0] \o NatMulSmall(a, 2^(k % LimbBits))

(* quotient and remainder of a by 2^k, for k below the bit length of a *)
NatShiftRight(a, k) ==
    LET w == k \div LimbBits
        d == NatDivSmall(SubSeq(a, w + 1, Len(a)), 2^(k % LimbBits))
    IN  [q |-> d.q, r |-> NatNorm(SubSeq(a, 1, w) \o <<d.r>>)]

RECURSIVE BitLenSmall(_)
BitLenSmall(x) == IF x = 0 THEN 0 ELSE 1 + BitLenSmall(x \div 2)

BitLen(a) == IF a = <<>> THEN 0 ELSE LimbBits * (Len(a) - 1) + BitLenSmall(a[Len(a)])

IsOdd(a) == a # <<>> /\ a[1] % 2 = 1

F64(class, sign, mant, exp) == [class |-> class, sign |-> sign, mant |-> mant, exp |-> exp]
F64Zero == F64("zero", 1, <<>>, 0)
F64NaN == F64("nan", 1, <<>>, 0)
F64Infinity(sign) == F64("inf", sign, <<>>, 0)

(* the f64 nearest to sign * (m + f) * 2^e, where 0 <= f < 1 and sticky    *)
(* tells whether f > 0                                                     *)
F64Round(sign, m, e, sticky) ==
    IF m = <<>> THEN F64Zero
    ELSE LET len == BitLen(m)
         IN  IF len <= MantissaBits
             THEN F64("finite", sign, NatShiftLeft(m, MantissaBits - len),
                      e - (MantissaBits - len))
             ELSE LET k == len - MantissaBits
                      s == NatShiftRight(m, k)
                      half == NatShiftLeft(<<1>>, k - 1)
                      up == \/ NatLess(half, s.r)
                            \/ s.r = half /\ (sticky \/ IsOdd(s.q))
                      q1 == IF up THEN NatAdd(s.q, <<1>>) ELSE s.q
                  IN  IF BitLen(q1) > MantissaBits
                      THEN F64("finite", sign, NatShiftRight(q1, 1).q, e + k + 1)
                      ELSE F64("finite", sign, q1, e + k)

(* the f64 nearest to sign * num / den: what a decimal literal or the      *)
(* conversion of a measurement gives (0 <= num, 0 < den, both small)       *)
F64FromRatio(sign, num, den) ==
    IF num = 0 THEN F64Zero
    ELSE LET d == NatDivSmall(NatShiftLeft(<<num>>, 5 * LimbBits), den)
         IN  F64Round(sign, d.q, -(5 * LimbBits), d.r # 0)

F64FromInt(i) == F64FromRatio(IF i < 0 THEN -1 ELSE 1, IF i < 0 THEN -i ELSE i, 1)

(* x + y *)
f64_add(x, y) ==
    CASE x.class = "nan" \/ y.class = "nan" -> F64NaN
      [] x.class = "inf" /\ y.class = "inf" ->
            IF x.sign = y.sign THEN x ELSE F64NaN
      [] x.class = "inf" -> x
      [] y.class = "inf" -> y
      [] x.class = "zero" -> y
      [] y.class = "zero" -> x
      [] OTHER ->
            LET e == IF x.exp < y.exp THEN x.exp ELSE y.exp
                xm == NatShiftLeft(x.mant, x.exp - e)
                ym == NatShiftLeft(y.mant, y.exp - e)
            IN  IF x.sign = y.sign THEN F64Round(x.sign, NatAdd(xm, ym), e, FALSE)
                ELSE IF xm = ym THEN F64Zero
                ELSE IF NatLess(xm, ym) THEN F64Round(y.sign, NatSub(ym, xm), e, FALSE)
                ELSE F64Round(x.sign, NatSub(xm, ym), e, FALSE)

(* x / (count as f64), count below LimbBase *)
f64_div_count(x, count) ==
    CASE x.class = "nan" -> F64NaN
      [] count = 0 -> IF x.class = "zero" THEN F64NaN ELSE F64Infinity(x.sign)
      [] x.class \in {"inf", "zero"} -> x
      [] OTHER ->
            LET d == NatDivSmall(NatShiftLeft(x.mant, 2 * LimbBits), count)
            IN  F64Round(x.sign, d.q, x.exp - 2 * LimbBits, d.r # 0)

(* x < y; false when either is NaN *)
f64_lt(x, y) ==
    LET MagLess(a, b) ==
            CASE b.class = "zero" -> FALSE
              [] a.class = "zero" -> TRUE
              [] a.class = "inf" -> FALSE
              [] b.class = "inf" -> TRUE
              [] OTHER -> a.exp < b.exp \/ (a.exp = b.exp /\ NatLess(a.mant, b.mant))
        sx == IF x.class = "zero" THEN 0 ELSE x.sign
        sy == IF y.class = "zero" THEN 0 ELSE y.sign
    IN  CASE x.class = "nan" \/ y.class = "nan" -> FALSE
          [] sx # sy -> sx < sy
          [] sx = 0 -> FALSE
          [] sx = 1 -> MagLess(x, y)
          [] OTHER -> MagLess(y, x)

f64_ge(x, y) == x.class # "nan" /\ y.class # "nan" /\ ~f64_lt(x, y)
f64_gt(x, y) == f64_lt(y, x)

(* f64::min, f64::max: a NaN operand is ignored *)
f64_min(x, y) ==
    IF x.class = "nan" THEN y ELSE IF y.class = "nan" THEN x
    ELSE IF f64_lt(y, x) THEN y ELSE x

f64_max(x, y) ==
    IF x.class = "nan" THEN y ELSE IF y.class = "nan" THEN x
    ELSE IF f64_lt(x, y) THEN y ELSE x

f64_abs(x) == IF x.class = "nan" THEN x ELSE [x EXCEPT !.sign = 1]

(* the natural number written with the decimal digits ds *)
RECURSIVE NatFromDigitsAcc(_, _)
NatFromDigitsAcc(ds, acc) ==
    IF ds = <<>> THEN acc
    ELSE NatFromDigitsAcc(Tail(ds),
                          NatAdd(NatMulSmall(acc, 10),
                                 IF Head(ds) = 0 THEN <<>> ELSE <<Head(ds)>>))

NatFromDigits(ds) == NatFromDigitsAcc(ds, <<>>)

(* a * 10^zeros *)
RECURSIVE NatTimesPow10(_, _)
NatTimesPow10(a, zeros) ==
    IF zeros = 0 \/ a = <<>> THEN a
    ELSE IF zeros >= 4 THEN NatTimesPow10(NatMulSmall(a, 10000), zeros - 4)
    ELSE NatTimesPow10(NatMulSmall(a, 10), zeros - 1)

(* the f64 nearest to sign * d * 10^zeros, as the literal d e zeros gives *)
F64FromDecimal(sign, d, zeros) == F64Round(sign, NatTimesPow10(<<d>>, zeros), 0, FALSE)

(* the largest exponent of a finite value: mant * 2^971 < 2^1024 *)
F64MaxExp == 971

(* x * (m as f64), 0 < m below LimbBase; a product beyond the largest      *)
(* finite value is an infinity                                             *)
f64_mul_small(x, m) ==
    IF x.class # "finite" THEN x
    ELSE IF F64Round(x.sign, NatMulSmall(x.mant, m), x.exp, FALSE).exp > F64MaxExp
    THEN F64Infinity(x.sign)
    ELSE F64Round(x.sign, NatMulSmall(x.mant, m), x.exp, FALSE)

(* the natural number nearest to mant / 2^k, the half going up (0 < k) *)
NatRoundShift(mant, k) ==
    IF k > BitLen(mant) THEN <<>>
    ELSE IF k = BitLen(mant) THEN <<1>>
    ELSE IF NatLess(NatShiftRight(mant, k).r, NatShiftLeft(<<1>>, k - 1))
    THEN NatShiftRight(mant, k).q
    ELSE NatAdd(NatShiftRight(mant, k).q, <<1>>)

(* f64::round: to the nearest integer, half-way cases away from zero *)
f64_round(x) ==
    IF x.class # "finite" \/ x.exp >= 0 THEN x
    ELSE F64Round(x.sign, NatRoundShift(x.mant, -x.exp), 0, FALSE)

(* an i64, as a sign and a magnitude *)
I64(neg, mag) == [neg |-> neg /\ mag # <<>>, mag |-> mag]
I64Bits == 63
I64Max == I64(FALSE, NatSub(NatShiftLeft(<<1>>, I64Bits), <<1>>))
I64Min == I64(TRUE, NatShiftLeft(<<1>>, I64Bits))

(* `x as i64`: toward zero, NaN to 0, saturating at the ends of i64 *)
f64_as_i64(x) ==
    CASE x.class \in {"nan", "zero"} -> I64(FALSE, <<>>)
      [] x.class = "inf" \/ x.exp + MantissaBits > I64Bits ->
            IF x.sign < 0 THEN I64Min ELSE I64Max
      [] x.exp >= 0 -> I64(x.sign < 0, NatShiftLeft(x.mant, x.exp))
      [] -x.exp >= MantissaBits -> I64(FALSE, <<>>)
      [] OTHER -> I64(x.sign < 0, NatShiftRight(x.mant, -x.exp).q)

(* ------------------------------ resolver ------------------------------- *)
(* The system resolver's answer for a host: Err or a list of addresses,    *)
(* each address tagged with its family.                                    *)
IpV4(id) == [fam |-> "v4", id |-> id]
IpV6(id) == [fam |-> "v6", id |-> id]

SelectSeq2(s, fam) == SelectSeq(s, LAMBDA a : a.fam = fam)

resolve_ip_first(answer, ipv6_only) ==
    IF ~answer.ok THEN Err("Dns", "lookup failed")
    ELSE LET addrs == answer.val
             filtered == IF ipv6_only THEN SelectSeq2(addrs, "v6") ELSE addrs
         IN  IF filtered # <<>> THEN Ok(Head(filtered))
             ELSE IF ipv6_only THEN Err("Dns", "No IPv6 address found")
             ELSE Err("Dns", "No IP address found")

resolve_ip(answer, ipv6_only) ==
    IF ~answer.ok THEN Err("Dns", "lookup failed")
    ELSE LET addrs == answer.val
             filtered == IF ipv6_only
                         THEN SelectSeq2(addrs, "v6")
                         ELSE SelectSeq2(addrs, "v4") \o SelectSeq2(addrs, "v6")
         IN  IF filtered # <<>> THEN Ok(Head(filtered))
             ELSE IF ipv6_only THEN Err("Dns", "No IPv6 address found")
             ELSE Err("Dns", "No IP address found")

(* ------------------------- protocol collaborators ---------------------- *)
(* What the network does to one probe attempt: the behaviour of the wire   *)
(* and, when it answers, the measured offset and round trip.  A reply of   *)
(* "bad_datetime" is accepted by the client but carries a timestamp that   *)
(* does not convert to a date.                                             *)
WireBehaviours == {"ok", "elapsed", "io_error", "protocol_error", "bad_datetime"}

(* adapters/ntp_client.rs query: tokio timeout -> Network("timeout"),      *)
(* rsntp IOError -> Network(e), ProtocolError -> Protocol(e)               *)
ntp_client_query(wire) ==
    CASE wire.behaviour = "elapsed" -> Err("Network", "timeout")
      [] wire.behaviour = "io_error" -> Err("Network", "io")
      [] wire.behaviour = "protocol_error" -> Err("Protocol", "kiss of death")
      [] OTHER -> Ok([offset_ms |-> wire.offset, rtt_ms |-> wire.rtt,
                      datetime_ok |-> wire.behaviour # "bad_datetime"])

(* adapters/nts_client.rs query_nts: the client connects to the host name  *)
(* itself (no resolve_ip), and every failure is an RkikError::Nts with the *)
(* error kind in the text: connect() failing, get_time() failing, or an    *)
(* unauthenticated reply.  The network time is a SystemTime, whose         *)
(* conversion cannot fail.                                                 *)
query_nts(wire) ==
    CASE wire.behaviour = "io_error" -> Err("Nts", "ke_handshake_failed")
      [] wire.behaviour = "elapsed" -> Err("Nts", "timeout")
      [] wire.behaviour = "protocol_error" -> Err("Nts", "unauthenticated_response")
      [] OTHER -> Ok([offset_ms |-> wire.offset, rtt_ms |-> wire.rtt])

(* adapters/nts_client.rs enum NtsErrorKind, by their as_str names *)
NtsErrorKinds ==
    {"ke_handshake_failed", "certificate_invalid", "missing_cookies", "aead_failure",
     "missing_authenticator", "invalid_unique_id", "invalid_origin_timestamp",
     "malformed_extensions", "unauthenticated_response", "timeout", "network",
     "unknown"}

NtsErrorKind_plugin_exit_code_auth_only(kind) ==
    CASE kind \in {"aead_failure", "missing_authenticator",
                   "unauthenticated_response"} -> 2
      [] OTHER -> 3

(* adapters/nts_client.rs NtsErrorKind::plugin_exit_code *)
NtsErrorKind_plugin_exit_code(kind) ==
    CASE kind \in {"aead_failure", "missing_authenticator", "unauthenticated_response",
                   "invalid_unique_id", "invalid_origin_timestamp"} -> 2
      [] kind \in {"ke_handshake_failed", "certificate_invalid", "missing_cookies",
                   "malformed_extensions"} -> 3
      [] kind \in {"timeout", "network", "unknown"} -> 3

(* ------------------------------ query_one ------------------------------ *)
(* One query_one future.  pc: "new" before its first poll, "resolving"     *)
(* while resolve_ip blocks the thread in the system resolver, "inflight"   *)
(* while it awaits the protocol probe, "done" once it has a result.        *)
(* steps: collaborator calls made so far, in order.  resolve_mode: the     *)
(* ipv6_only flag given to resolve_ip.  measured: the answer of the NTS    *)
(* exchange, held while the address is resolved for display.               *)
Future(pc, steps, ip, port, bind_v6, resolve_mode, result) ==
    [pc |-> pc, steps |-> steps, ip |-> ip, port |-> port, bind_v6 |-> bind_v6,
     resolve_mode |-> resolve_mode, result |-> result, measured |-> None]

NewFuture == Future("new", <<>>, None, None, FALSE, None, None)

(* the offset and round trip measured on the wire, whole milliseconds in  *)
(* this model, become the f64 fields of the ProbeResult                    *)
ProbeResult(name, ip, port, m, auth) ==
    [name |-> name, ip |-> ip, port |-> port,
     offset_ms |-> F64FromInt(m.offset_ms), rtt_ms |-> F64FromInt(m.rtt_ms),
     authenticated |-> auth]

(* query_one from its call to the point where it first waits: the return   *)
(* on a target that does not parse, the await of query_nts, or the         *)
(* blocking call of resolve_ip                                             *)
query_one_begin(target, ipv6, use_nts) ==
    LET parsed == parse_target(target)
    IN  IF ~parsed.ok
        THEN Future("done", <<"parse">>, None, None, FALSE, None, Some(parsed))
        ELSE IF use_nts
        THEN Future("inflight", <<"parse", "probe">>, None, parsed.val.port,
                    FALSE, None, None)
        ELSE Future("resolving", <<"parse", "resolve">>, None,
                    IF IsSome(parsed.val.port) THEN parsed.val.port
                    ELSE Some(DefaultNtpPort),
                    ipv6 \/ parsed.val.is_ipv6_literal, Some(ipv6), None)

(* query_one from the return of resolve_ip: on the NTP path to the await   *)
(* of ntp_client::query or the return of the resolver's error, on the NTS  *)
(* path to the return of query_one                                         *)
query_one_resolved(fut, target, ipv6, use_nts, dns) ==
    LET ip == resolve_ip(dns, ipv6)
    IN  IF use_nts
        THEN [fut EXCEPT !.pc = "done",
                         !.ip = IF ip.ok THEN Some(ip.val) ELSE None,
                         !.measured = None,
                         !.result =
                             IF ip.ok
                             THEN Some(Ok(ProbeResult(target, ip.val,
                                                      IF IsSome(fut.port)
                                                      THEN Unwrap(fut.port)
                                                      ELSE DefaultNtpPort,
                                                      Unwrap(fut.measured), TRUE)))
                             ELSE Some(ip)]
        ELSE IF ~ip.ok
        THEN Future("done", fut.steps, None, None, FALSE, fut.resolve_mode, Some(ip))
        ELSE [fut EXCEPT !.pc = "inflight", !.steps = Append(fut.steps, "probe"),
                         !.ip = Some(ip.val)]

(* query_one from the completion of the probe it awaits: on the NTP path   *)
(* to its return, on the NTS path to the return of the exchange's error or *)
(* the blocking call of resolve_ip                                         *)
query_one_probed(fut, target, ipv6, use_nts, wire) ==
    IF use_nts
    THEN LET nts_result == query_nts(wire)
         IN  IF ~nts_result.ok
             THEN [fut EXCEPT !.pc = "done", !.result = Some(nts_result)]
             ELSE [fut EXCEPT !.pc = "resolving",
                              !.steps = Append(fut.steps, "resolve"),
                              !.resolve_mode = Some(ipv6),
                              !.measured = Some(nts_result.val)]
    ELSE LET res == ntp_client_query(wire)
         IN  [fut EXCEPT !.pc = "done",
                         !.result =
                             IF ~res.ok THEN Some(res)
                             ELSE IF ~res.val.datetime_ok
                             THEN Some(Err("Other", "timestamp overflow"))
                             ELSE Some(Ok(ProbeResult(target, Unwrap(fut.ip),
                                                      Unwrap(fut.port), res.val, FALSE)))]

(* a poll of the future runs through a blocking resolver call: the future  *)
(* as the poll leaves it, given the resolver's answer                      *)
ThroughResolver(fut, target, ipv6, use_nts, dns) ==
    IF fut.pc = "resolving" THEN query_one_resolved(fut, target, ipv6, use_nts, dns)
    ELSE fut

(* the first poll of query_one: to its first await or an early return *)
query_one_start(target, ipv6, use_nts, dns) ==
    ThroughResolver(query_one_begin(target, ipv6, use_nts), target, ipv6, use_nts, dns)

(* the poll of query_one after the completion of the probe: to its return *)
query_one_finish(fut, target, ipv6, use_nts, dns, wire) ==
    ThroughResolver(query_one_probed(fut, target, ipv6, use_nts, wire),
                    target, ipv6, use_nts, dns)

(* services/query.rs query_one, from call to return *)
query_one(target, ipv6, use_nts, dns, wire) ==
    LET started == query_one_start(target, ipv6, use_nts, dns)
    IN  IF started.pc = "done" THEN started
        ELSE query_one_finish(started, target, ipv6, use_nts, dns, wire)

(* ------------------------------ hashing -------------------------------- *)
(* a u64 as four 16-bit digits, least significant first *)
U64(d0, d1, d2, d3) == <<d0, d1, d2, d3>>

(* Op of the value of v, v computed once *)
With(v, Op(_)) == CHOOSE r \in {Op(val) : val \in {v}} : TRUE

RECURSIVE BitXor(_, _, _)
BitXor(a, b, width) ==
    IF width = 0 THEN 0
    ELSE ((a + b) % 2) + 2 * BitXor(a \div 2, b \div 2, width - 1)

(* u64 `^` *)
U64Xor(a, b) ==
    U64(BitXor(a[1], b[1], 16), BitXor(a[2], b[2], 16),
        BitXor(a[3], b[3], 16), BitXor(a[4], b[4], 16))

RECURSIVE AddDigits(_, _, _)
AddDigits(a, b, carry) ==
    IF a = <<>> THEN <<>>
    ELSE <<(Head(a) + Head(b) + carry) % (U16Max + 1)>>
         \o AddDigits(Tail(a), Tail(b), (Head(a) + Head(b) + carry) \div (U16Max + 1))

(* u64::wrapping_add: the sum modulo 2^64 *)
wrapping_add(a, b) == AddDigits(a, b, 0)

(* u64::wrapping_neg: the two's complement *)
wrapping_neg(a) ==
    wrapping_add(U64(U16Max - a[1], U16Max - a[2], U16Max - a[3], U16Max - a[4]),
                 U64(1, 0, 0, 0))

RotDigit(a, k, i) ==
    ((a[((i - (k \div 16)) % 4) + 1] * 2^(k % 16)) % (U16Max + 1))
    + (a[((i - (k \div 16) - 1) % 4) + 1] \div 2^(16 - (k % 16)))

(* u64::rotate_left *)
rotate_left(a, k) ==
    U64(RotDigit(a, k, 0), RotDigit(a, k, 1), RotDigit(a, k, 2), RotDigit(a, k, 3))

(* u64 `>>` by less than 16 bits *)
shr(a, k) ==
    U64((a[1] \div 2^k) + (a[2] % 2^k) * 2^(16 - k),
        (a[2] \div 2^k) + (a[3] % 2^k) * 2^(16 - k),
        (a[3] \div 2^k) + (a[4] % 2^k) * 2^(16 - k),
        a[4] \div 2^k)

(* u64 `%` by m below 2^23, its bytes taken from the most significant *)
RECURSIVE RemFrom(_, _, _, _)
RemFrom(a, m, i, r) ==
    IF i = 0 THEN r
    ELSE RemFrom(a, m, i - 1,
                 (((r * 256 + (a[i] \div 256)) % m) * 256 + (a[i] % 256)) % m)
U64Rem(a, m) == RemFrom(a, m, 4, 0)

(* std DefaultHasher: SipHash 1-3 under the keys (0, 0).  The state of the *)
(* hasher and the rounds of its compress! macro, in four steps.            *)
SipState(v0, v1, v2, v3) == [v0 |-> v0, v1 |-> v1, v2 |-> v2, v3 |-> v3]

Mix1(s) == SipState(wrapping_add(s.v0, s.v1), s.v1, wrapping_add(s.v2, s.v3), s.v3)
Mix2(s) == SipState(rotate_left(s.v0, 32), U64Xor(rotate_left(s.v1, 13), s.v0), s.v2,
                    U64Xor(rotate_left(s.v3, 16), s.v2))
Mix3(s) == SipState(wrapping_add(s.v0, s.v3), s.v1, wrapping_add(s.v2, s.v1), s.v3)
Mix4(s) == SipState(s.v0, U64Xor(rotate_left(s.v1, 17), s.v2), rotate_left(s.v2, 32),
                    U64Xor(rotate_left(s.v3, 21), s.v0))
compress(s) == With(With(With(With(s, Mix1), Mix2), Mix3), Mix4)

(* one word of the message: v3 ^= m, one round, v0 ^= m *)
c_rounds(s, m) ==
    With(With(With(s, LAMBDA v : SipState(v.v0, v.v1, v.v2, U64Xor(v.v3, m))), compress),
         LAMBDA v : SipState(U64Xor(v.v0, m), v.v1, v.v2, v.v3))

(* the three rounds of the finalisation *)
d_rounds(s) == compress(compress(compress(s)))

(* eight bytes of buf from start, as a little-endian word *)
u8to64_le(buf, start) ==
    U64(buf[start] + 256 * buf[start + 1], buf[start + 2] + 256 * buf[start + 3],
        buf[start + 4] + 256 * buf[start + 5], buf[start + 6] + 256 * buf[start + 7])

RECURSIVE Zeros(_)
Zeros(k) == IF k = 0 THEN <<>> ELSE <<0>> \o Zeros(k - 1)

(* the last word: the bytes left over, and the length in the top byte *)
LastWord(msg) ==
    u8to64_le(SubSeq(msg, Len(msg) - (Len(msg) % 8) + 1, Len(msg))
              \o Zeros(7 - (Len(msg) % 8)) \o <<Len(msg) % 256>>, 1)

(* Hasher::write over the whole words of the bytes written *)
RECURSIVE write(_, _, _)
write(s, msg, start) ==
    IF start + 7 > Len(msg) THEN s
    ELSE write(c_rounds(s, u8to64_le(msg, start)), msg, start + 8)

(* "somepseudorandomlygeneratedbytes" *)
SipKeys ==
    SipState(U64(25973, 28787, 28005, 29551), U64(28525, 28260, 29281, 25711),
             U64(29281, 28261, 26469, 27769), U64(25971, 31092, 25698, 29797))

(* Hasher::finish *)
finish(s, msg) ==
    With(With(With(c_rounds(s, LastWord(msg)),
                   LAMBDA v : SipState(v.v0, v.v1, U64Xor(v.v2, U64(255, 0, 0, 0)), v.v3)),
              d_rounds),
         LAMBDA v : U64Xor(U64Xor(v.v0, v.v1), U64Xor(v.v2, v.v3)))

(* DefaultHasher::new(), the bytes written, finish() *)
DefaultHasher(msg) == finish(write(SipKeys, msg, 1), msg)

(* the UTF-8 byte of a character of a target *)
Utf8(c) ==
    CASE c = " " -> 32 [] c = "0" -> 48 [] c = "1" -> 49 [] c = "2" -> 50
      [] c = ":" -> 58 [] c = "[" -> 91 [] c = "]" -> 93 [] c = "a" -> 97
      [] c = "b" -> 98

RECURSIVE as_bytes(_)
as_bytes(s) == IF s = <<>> THEN <<>> ELSE <<Utf8(Head(s))>> \o as_bytes(Tail(s))

(* the addresses of the model: IpV4(id) is 10.0.0.id and IpV6(id) is ::id *)
octets(ip) == IF ip.fam = "v4" THEN <<10, 0, 0, ip.id>> ELSE Zeros(15) \o <<ip.id>>

(* an integer below 2^16 in width bytes, least significant first *)
to_le_bytes(v, width) ==
    IF width = 1 THEN <<v>> ELSE <<v % 256, v \div 256>> \o Zeros(width - 2)

(* what Hash writes: a str as its bytes and 0xff, an IpAddr as the         *)
(* discriminant of its variant (an isize) and its octets, an integer as    *)
(* its bytes, a bool as one byte                                           *)
HashStr(s) == as_bytes(s) \o <<255>>
HashIpAddr(ip) == to_le_bytes(IF ip.fam = "v4" THEN 0 ELSE 1, 8) \o octets(ip)

(* ------------------------------ PTP path -------------------------------- *)
(* adapters/ptp_client.rs build_seed *)
build_seed(name, ip, domain, event_port, general_port, hw_timestamping) ==
    DefaultHasher(HashStr(name) \o HashIpAddr(ip) \o to_le_bytes(domain, 1)
                  \o to_le_bytes(event_port, 2) \o to_le_bytes(general_port, 2)
                  \o to_le_bytes(IF hw_timestamping THEN 1 ELSE 0, 1))

(* `seed as i64 % m`: a seed of 2^63 or more is the negative seed - 2^64,  *)
(* and the remainder has the sign of the dividend                          *)
as_i64_rem(seed, m) ==
    IF seed[4] >= 2^15 THEN -U64Rem(wrapping_neg(seed), m) ELSE U64Rem(seed, m)

(* adapters/ptp_client.rs derive_offset, in nanoseconds: from -6 ms to     *)
(* 2 ms                                                                    *)
derive_offset(seed) == (as_i64_rem(seed, 200000 * 2) - 200000) * 10

(* adapters/ptp_client.rs derive_path_delay: never zero *)
derive_path_delay(seed) == (U64Rem(shr(seed, 11), 50000) + 1000) * 10

(* adapters/ptp_client.rs query_ptp: the simulated probe.  The block given *)
(* to time::timeout has no await: it completes when it is first polled,    *)
(* before the timer is looked at, so the probe answers whatever the        *)
(* timeout (zero included) and the Elapsed arm is never taken.  Its values *)
(* derive from the hash build_seed makes of the arguments.                 *)
query_ptp(target_name, ip, domain, event_port, general_port, hw_timestamping) ==
    With(build_seed(target_name, ip, domain, event_port, general_port, hw_timestamping),
         LAMBDA seed :
             Ok([name |-> target_name, ip |-> ip, event_port |-> event_port,
                 offset_ns |-> derive_offset(seed),
                 mean_path_delay_ns |-> derive_path_delay(seed)]))

(* services/ptp_query.rs query_target, its options as the command line    *)
(* defaults them                                                           *)
query_target(target, ipv6, dns) ==
    LET parsed == parse_target(target)
    IN  IF ~parsed.ok
        THEN Future("done", <<"parse">>, None, None, FALSE, None, Some(parsed))
        ELSE LET forced == ipv6 \/ parsed.val.is_ipv6_literal
                 ip == resolve_ip(dns, forced)
                 event_port == IF IsSome(parsed.val.port) THEN Unwrap(parsed.val.port)
                               ELSE DefaultPtpEventPort
             IN  IF ~ip.ok
                 THEN Future("done", <<"parse", "resolve">>, None, None, forced,
                             Some(forced), Some(ip))
                 ELSE Future("done", <<"parse", "resolve", "probe">>, Some(ip.val),
                             Some(event_port), forced, Some(forced),
                             Some(query_ptp(target, ip.val, DefaultPtpDomain, event_port,
                                            DefaultPtpGeneralPort, FALSE)))

(* ------------------------------ statistics ----------------------------- *)
(* iter().map(f).sum::<f64>(): the f64 sum, from 0.0, in series order *)
RECURSIVE SumFrom(_, _, _)
SumFrom(series, field, acc) ==
    IF series = <<>> THEN acc
    ELSE SumFrom(Tail(series), field, f64_add(acc, Head(series)[field]))

(* iter().map(|r| r.offset_ms).fold(init, f64::min) and fold(init, f64::max) *)
RECURSIVE FoldMin(_, _)
FoldMin(series, acc) ==
    IF series = <<>> THEN acc
    ELSE FoldMin(Tail(series), f64_min(acc, Head(series).offset_ms))

RECURSIVE FoldMax(_, _)
FoldMax(series, acc) ==
    IF series = <<>> THEN acc
    ELSE FoldMax(Tail(series), f64_max(acc, Head(series).offset_ms))

compute_stats(results) ==
    [count |-> Len(results),
     offset_avg |-> f64_div_count(SumFrom(results, "offset_ms", F64Zero), Len(results)),
     offset_min |-> FoldMin(results, F64Infinity(1)),
     offset_max |-> FoldMax(results, F64Infinity(-1)),
     rtt_avg |-> f64_div_count(SumFrom(results, "rtt_ms", F64Zero), Len(results))]

AbsGt(avg, t) == f64_gt(f64_abs(avg), F64FromInt(t))

(* offset.abs() >= t; every comparison with NaN is false *)
AbsGe(avg, t) == f64_ge(f64_abs(avg), F64FromInt(t))

(* ------------------------- threshold evaluator ------------------------- *)
(* bin/rkik.rs query_loop, plugin block *)
plugin_exit_code(stats, warning, critical) ==
    LET after_critical == IF IsSome(critical) /\ AbsGe(stats.offset_avg, Unwrap(critical))
                          THEN 2 ELSE 0
    IN  IF after_critical = 0
        THEN IF IsSome(warning) /\ AbsGe(stats.offset_avg, Unwrap(warning))
             THEN 1 ELSE 0
        ELSE after_critical

plugin_state(exit_code) ==
    CASE exit_code = 0 -> "OK"
      [] exit_code = 1 -> "WARNING"
      [] exit_code = 2 -> "CRITICAL"
      [] OTHER -> "UNKNOWN"

(* bin/rkik.rs handle_error *)
handle_error(err) ==
    CASE err.kind = "Dns" -> 2
      [] err.kind = "Network" /\ err.msg = "timeout" -> 3
      [] OTHER -> 1

(* ------------------------------ fan-out -------------------------------- *)
(* services/compare.rs compare_many, after join_all: push each result in   *)
(* input order, `?` returns the first error met                            *)
RECURSIVE compare_many(_, _)
compare_many(results, out_vec) ==
    IF results = <<>> THEN Ok(out_vec)
    ELSE IF ~Head(results).ok THEN Head(results)
    ELSE compare_many(Tail(results), Append(out_vec, Head(results).val))

FutureResultsReversed(fs) == [i \in 1..Len(fs) |-> Unwrap(fs[Len(fs) + 1 - i].result)]

(* the output of join_all: the result of each future, in input order *)
FutureResults(fs) == [i \in 1..Len(fs) |-> Unwrap(fs[i].result)]

(* ------------------------------ validation ----------------------------- *)
threshold_error_strict(a) ==
    a.plugin /\
      \/ IsSome(a.warning) /\ Unwrap(a.warning) < 0
      \/ IsSome(a.critical) /\ Unwrap(a.critical) < 0
      \/ IsSome(a.warning) /\ IsSome(a.critical)
           /\ Unwrap(a.warning) > Unwrap(a.critical)

(* bin/rkik.rs main: threshold checks, only made in plugin mode *)
threshold_error(a) ==
    a.plugin /\
      \/ IsSome(a.warning) /\ Unwrap(a.warning) < 0
      \/ IsSome(a.critical) /\ Unwrap(a.critical) < 0
      \/ IsSome(a.warning) /\ IsSome(a.critical)
           /\ Unwrap(a.warning) >= Unwrap(a.critical)

sampling_error_gt(a) ==
    \/ a.infinite /\ a.count > DefaultCount
    \/ a.interval # DefaultInterval /\ ~a.infinite /\ a.count = DefaultCount

(* bin/rkik.rs main: sampling flag checks *)
sampling_error(a) ==
    \/ a.infinite /\ a.count # DefaultCount
    \/ a.interval # DefaultInterval /\ ~a.infinite /\ a.count = DefaultCount

(* bin/rkik.rs main: flag combinations refused *)
combination_error(a) == a.plugin /\ a.mode = "compare"

(* bin/rkik.rs main: --sync refused with --infinite and with --compare *)
sync_error(a) == a.sync /\ (a.infinite \/ a.mode = "compare")

usage_error(a) ==
    threshold_error(a) \/ sampling_error(a) \/ combination_error(a) \/ sync_error(a)

(* ------------------------------ input sets ----------------------------- *)
Offsets == (-1)..MaxOff
Rtts == {1}

(* in a comparison every server has its own clock error *)
ServerOffset(target) == IF target = <<"b">> THEN MaxOff ELSE 1

FailingWires == [behaviour : WireBehaviours \ {"ok"}, offset : {0}, rtt : {1}]
Wires(offs) == [behaviour : {"ok"}, offset : offs, rtt : Rtts] \cup FailingWires

DnsFail == Err("Dns", "failed to lookup address information")
DnsAnswers ==
    {DnsFail, Ok(<<>>), Ok(<<IpV4(1)>>), Ok(<<IpV6(1)>>), Ok(<<IpV4(1), IpV6(2)>>),
     Ok(<<IpV6(1), IpV4(2)>>)}
CliDnsAnswers == {DnsFail, Ok(<<IpV4(1)>>)}

(* a host written as an IPv6 address is not looked up: it is its own       *)
(* (IPv6) address, or it is malformed and the conversion fails.  Any other *)
(* host, bracketed or not, is looked up.                                   *)
IsIpv6Text(host) == \E i \in 1..Len(host) : host[i] = ":"

(* the address such a host denotes: of the hosts of the model, "::1" *)
Ipv6AddrOf(host) == IF host = <<":", ":", "1">> THEN Some(IpV6(1)) ELSE None

DnsAnswersFor(target, answers) ==
    LET parsed == parse_target(target)
    IN  IF parsed.ok /\ IsIpv6Text(parsed.val.host)
        THEN IF IsSome(Ipv6AddrOf(parsed.val.host))
             THEN answers \cap {Ok(<<Unwrap(Ipv6AddrOf(parsed.val.host))>>)}
             ELSE answers \cap {DnsFail}
        ELSE answers

T_a == <<"a">>
T_b == <<"b">>
T_port == <<"a", ":", "1", "2">>
T_zero == <<"a", ":", "0">>
T_v6 == <<":", ":", "1">>
T_v6port == <<"[", ":", ":", "1", "]", ":", "1", "2">>
T_empty == <<" ">>
T_bracketed == <<"[", "a", "]">>

SingleTargets == {T_a, T_zero}
CompareTargets == {T_a, T_b}
QueryTargets == {T_a, T_port, T_zero, T_v6, T_v6port, T_empty, T_bracketed}
FanoutTargets == {T_a, T_b, T_zero}

Thresholds == {None} \cup {Some(t) : t \in (-1)..MaxOff}

SeqsOf(S, lo, hi) == UNION {[1..k -> S] : k \in lo..hi}

(* ------------------------------ state ---------------------------------- *)
VARIABLES
    args,        \* the parsed command line (struct Args)
    targets,     \* the target(s) probed: one for query_loop, the list for --compare
    pc,          \* position of main / query_loop / compare_many
    n,           \* loop counter n
    all,         \* query_loop: Vec<ProbeResult> of the samples recorded
    all_map,     \* compare loop: HashMap<String, Vec<ProbeResult>>
    futs,        \* the query_one futures of the current iteration
    order,       \* indices of the futures in the order they completed
    batch,       \* value returned by the last compare_many call, if any
    iterations,  \* number of probe iterations started
    sleeps,      \* number of inter-sample sleeps started
    cancelled,   \* the ctrl_c branch of the select won
    exit_code,   \* process exit code once exited
    out,         \* what was printed: status lines, errors, summaries
    call,        \* a library function called on its own: its name and arguments
    ret,         \* the value that call returned, if it returned
    sigints,     \* interrupt signals that arrived while no ctrl_c() was polled
    stats_calls, \* the slices compute_stats was called with
    net_log,     \* resolver calls and protocol probes made by the loops, in order
    sys_clock,   \* the system clock: is the process root, clock_settime calls
    tui_app      \* the TuiApp of the dashboard, when one was built

vars == <<args, targets, pc, n, all, all_map, futs, order, batch, iterations,
          sleeps, cancelled, exit_code, out, call, ret, sigints,
          stats_calls, net_log, sys_clock, tui_app>>

Event(ev, word, len) == [ev |-> ev, word |-> word, len |-> len]

(* clap: --warning and --critical require --plugin.  The output format is  *)
(* followed into the summary of a comparison only.  A comparison under     *)
(* --nts is followed for one iteration, with the default interval: its     *)
(* futures call the resolver in the order they complete, and every order   *)
(* of every iteration is a log of its own.                                 *)
ArgsSet ==
    {a \in [mode : {"single", "compare", "none"}, plugin : BOOLEAN,
            warning : Thresholds, critical : Thresholds, infinite : BOOLEAN,
            count : 0..MaxCount, interval : {DefaultInterval, 2},
            nts : BOOLEAN, ipv6 : {FALSE}, format : {"text", "json"},
            sync : {FALSE}, dry_run : {FALSE}] :
        /\ (IsSome(a.warning) \/ IsSome(a.critical)) => a.plugin
        /\ a.mode # "compare" => a.format = "text"
        /\ (a.nts /\ a.mode = "compare") =>
               ~a.infinite /\ a.count <= DefaultCount /\ a.interval = DefaultInterval}

TargetsFor(mode) ==
    CASE mode = "single" -> {<<t>> : t \in SingleTargets}
      [] mode = "compare" -> SeqsOf(CompareTargets, 2, MaxTargets)
      [] OTHER -> {<<>>}

Idle ==
    /\ n = 0
    /\ all = <<>>
    /\ all_map = <<>>
    /\ futs = <<>>
    /\ order = <<>>
    /\ batch = None
    /\ iterations = 0
    /\ sleeps = 0
    /\ cancelled = FALSE
    /\ exit_code = None
    /\ out = <<>>
    /\ call = None
    /\ ret = None
    /\ sigints = <<>>
    /\ stats_calls = {}
    /\ net_log = <<>>
    /\ sys_clock = [root |-> FALSE, settime_calls |-> 0, steps |-> 0]
    /\ tui_app = None

Init ==
    /\ args \in ArgsSet
    /\ targets \in TargetsFor(args.mode)
    /\ pc = "start"
    /\ Idle

(* ------------------------------ main ----------------------------------- *)
Exit(code, events) ==
    /\ exit_code' = Some(code)
    /\ out' = out \o events
    /\ pc' = "exited"

ValidateWhileLoop ==
    /\ pc = "start"
    /\ IF usage_error(args)
       THEN Exit(2, <<Event("usage", "", 0)>>)
       ELSE IF args.mode = "none"
       THEN Exit(1, <<Event("error", "", 0)>>)
       ELSE /\ pc' = IF ~args.infinite /\ args.count = 0 THEN "after_loop"
                     ELSE "loop_top"
            /\ UNCHANGED <<exit_code, out>>
    /\ UNCHANGED <<tui_app, sys_clock, net_log, stats_calls, sigints, call, ret, args, targets, n, all,
                   all_map, futs, order, batch, iterations, sleeps, cancelled>>

(* main up to the dispatch on (compare, server, target) *)
Validate ==
    /\ pc = "start"
    /\ IF usage_error(args)
       THEN Exit(2, <<Event("usage", "", 0)>>)
       ELSE IF args.mode = "none"
       THEN Exit(1, <<Event("error", "", 0)>>)
       ELSE /\ pc' = "loop_top"
            /\ UNCHANGED <<exit_code, out>>
    /\ UNCHANGED <<tui_app, sys_clock, net_log, stats_calls, sigints, call, ret, args, targets, n, all, all_map, futs, order, batch, iterations,
                   sleeps, cancelled>>

(* the futures of one iteration, each run to its first await *)
StartFutures(dnss) ==
    [i \in 1..Len(targets) |->
        query_one_start(targets[i], args.ipv6, args.nts, dnss[i])]

DoneAtStart(fs) == SelectSeq([i \in 1..Len(fs) |-> i], LAMBDA i : fs[i].pc = "done")

(* the inputs of each entry point: "single" and "compare" are the two     *)
(* loops of the binary, "fanout" is compare_many called on its own and     *)
(* "query" is query_one called on its own                                  *)
WiresOf(i) ==
    CASE args.mode = "compare" -> Wires({ServerOffset(targets[i])})
      [] args.mode = "fanout" ->
            {w \in Wires({ServerOffset(targets[i])}) : w.behaviour \in {"ok", "elapsed"}}
      [] OTHER -> Wires(Offsets)

AnswersOf == IF args.mode = "query" THEN DnsAnswers ELSE CliDnsAnswers

(* what the await of future i can resolve to, over the answers of the     *)
(* resolver and the behaviours of the wire                                 *)
Completions(fs, i) ==
    IF fs[i].pc = "inflight"
    THEN {query_one_finish(fs[i], targets[i], args.ipv6, args.nts, d, w) :
             d \in DnsAnswersFor(targets[i], AnswersOf), w \in WiresOf(i)}
    ELSE {fs[i]}

DnsChoices ==
    {d \in [1..Len(targets) -> AnswersOf] :
        \A i \in 1..Len(targets) : d[i] \in DnsAnswersFor(targets[i], AnswersOf)}

(* the resolver calls and probes that query_one made for target i between  *)
(* two states of its future, as entries of the log                         *)
NetOps(before_steps, after_steps, i, k) ==
    LET added == SubSeq(after_steps, Len(before_steps) + 1, Len(after_steps))
        net == SelectSeq(added, LAMBDA st : st \in {"resolve", "probe"})
    IN  [j \in 1..Len(net) |-> [op |-> net[j], target |-> i, iteration |-> k]]

(* a resolver call or a probe of an iteration that reuses the addresses of *)
(* the first one                                                           *)
CachedProbes(k) ==
    [i \in 1..Len(futs) |-> [op |-> "probe", target |-> i, iteration |-> k]]

BeginIterationCachedDns ==
    /\ pc = "loop_top"
    /\ futs' = IF iterations = 0 THEN [i \in 1..Len(targets) |-> NewFuture]
               ELSE [i \in 1..Len(futs) |->
                        [futs[i] EXCEPT !.pc = "inflight", !.result = None]]
    /\ net_log' = IF iterations = 0 THEN net_log
                  ELSE net_log \o CachedProbes(iterations + 1)
    /\ order' = <<>>
    /\ iterations' = iterations + 1
    /\ pc' = "inflight"
    /\ UNCHANGED <<tui_app, sys_clock, stats_calls, sigints, call, ret, args, targets, n, all, all_map, batch,
                   sleeps, cancelled, exit_code, out>>

(* top of `loop`: query_one / compare_many is called, with one query_one   *)
(* future per target, none of them polled yet                              *)
BeginIteration ==
    /\ pc = "loop_top"
    /\ futs' = [i \in 1..Len(targets) |-> NewFuture]
    /\ order' = <<>>
    /\ iterations' = iterations + 1
    /\ pc' = "inflight"
    /\ UNCHANGED <<tui_app, sys_clock, stats_calls, sigints, call, ret, args, targets, n, all, all_map, batch,
                   sleeps, cancelled, exit_code, out, net_log>>

(* the thread runs one future at a time: while a future is inside the      *)
(* resolver nothing else of the process runs, and the futures are polled   *)
(* for the first time in the order of the targets                          *)
Blocked(fs) == \E j \in 1..Len(fs) : fs[j].pc = "resolving"
AllStarted(fs) == \A j \in 1..Len(fs) : fs[j].pc # "new"

FutureStep(i, f) ==
    /\ futs' = [futs EXCEPT ![i] = f]
    /\ net_log' = net_log \o NetOps(futs[i].steps, f.steps, i, iterations)
    /\ UNCHANGED <<tui_app, sys_clock, stats_calls, sigints, call, ret, args, targets, pc, n,
                   all, all_map, order, batch, iterations, sleeps, cancelled, exit_code,
                   out>>

(* the first poll of the future of target i: query_one parses the target   *)
(* and returns, sends the NTS probe, or calls the resolver                 *)
FirstPoll(i) ==
    /\ pc = "inflight"
    /\ futs[i].pc = "new"
    /\ ~Blocked(futs)
    /\ \A j \in 1..(i - 1) : futs[j].pc # "new"
    /\ FutureStep(i, query_one_begin(targets[i], args.ipv6, args.nts))

(* the resolver call made for target i returns and query_one goes on: to   *)
(* the probe it sends and awaits, or to its return                         *)
ResolverReturns(i) ==
    /\ pc = "inflight"
    /\ futs[i].pc = "resolving"
    /\ \E d \in DnsAnswersFor(targets[i], AnswersOf) :
          FutureStep(i, query_one_resolved(futs[i], targets[i], args.ipv6, args.nts, d))

(* the probe awaited by the future of target i completes and the future    *)
(* runs on; the probes of one compare_many call complete in any order,     *)
(* once join_all has polled every future                                   *)
ProbeComplete(i) ==
    /\ pc = "inflight"
    /\ futs[i].pc = "inflight"
    /\ AllStarted(futs)
    /\ ~Blocked(futs)
    /\ \E w \in WiresOf(i) :
          FutureStep(i, query_one_probed(futs[i], targets[i], args.ipv6, args.nts, w))

AllDone(fs) == \A i \in 1..Len(fs) : fs[i].pc = "done"

(* query_loop, Err(e) arm: plugin mode prints UNKNOWN and exits 3, the     *)
(* interactive mode exits with the code of handle_error                    *)
on_probe_error_interactive(plugin, err) ==
    [code |-> handle_error(err), events |-> <<Event("error", err.kind, 0)>>]

on_probe_error(plugin, err) ==
    IF plugin
    THEN [code |-> 3, events |-> <<Event("status", "UNKNOWN", 0)>>]
    ELSE [code |-> handle_error(err), events |-> <<Event("error", err.kind, 0)>>]

NextOrBreakOffByOne ==
    /\ n' = n + 1
    /\ IF ~args.infinite /\ n + 1 > args.count
       THEN pc' = "after_loop" /\ sleeps' = sleeps
       ELSE pc' = "sleeping" /\ sleeps' = sleeps + 1

(* bottom of the loop body: n += 1, break or start the sleep *)
NextOrBreak ==
    /\ n' = n + 1
    /\ IF ~args.infinite /\ n + 1 >= args.count
       THEN pc' = "after_loop" /\ sleeps' = sleeps
       ELSE pc' = "sleeping" /\ sleeps' = sleeps + 1

QueryLoopProbeDoneContinue ==
    /\ pc = "inflight"
    /\ args.mode = "single"
    /\ AllDone(futs)
    /\ LET res == Unwrap(futs[1].result)
       IN  /\ UNCHANGED <<futs, net_log>>
           /\ IF res.ok
                 THEN /\ all' = Append(all, res.val)
                      /\ NextOrBreak
                      /\ UNCHANGED <<exit_code, out>>
                 ELSE IF args.plugin
                 THEN /\ out' = out \o on_probe_error(args.plugin, res).events
                      /\ NextOrBreak
                      /\ UNCHANGED <<exit_code, all>>
                 ELSE /\ Exit(on_probe_error(args.plugin, res).code,
                              on_probe_error(args.plugin, res).events)
                      /\ UNCHANGED <<n, all, sleeps>>
    /\ UNCHANGED <<tui_app, sys_clock, stats_calls, sigints, call, ret, args, targets, all_map, order,
                   batch, iterations, cancelled>>

(* query_loop: the probe of this iteration returned *)
QueryLoopProbeDone ==
    /\ pc = "inflight"
    /\ args.mode = "single"
    /\ AllDone(futs)
    /\ LET res == Unwrap(futs[1].result)
       IN  /\ UNCHANGED <<futs, net_log>>
           /\ IF res.ok
                 THEN /\ all' = Append(all, res.val)
                      /\ NextOrBreak
                      /\ UNCHANGED <<exit_code, out>>
                 ELSE /\ Exit(on_probe_error(args.plugin, res).code,
                              on_probe_error(args.plugin, res).events)
                      /\ UNCHANGED <<n, all, sleeps>>
    /\ UNCHANGED <<tui_app, sys_clock, stats_calls, sigints, call, ret, args, targets, all_map, order, batch,
                   iterations, cancelled>>

(* for r in results { all.entry(r.target.name).or_default().push(r) } *)
RECURSIVE push_all(_, _)
push_all(map, results) ==
    IF results = <<>> THEN map
    ELSE LET r == Head(results)
             name == r.name
             next == IF name \in DOMAIN map
                     THEN [map EXCEPT ![name] = Append(map[name], r)]
                     ELSE [k \in DOMAIN map \cup {name} |->
                              IF k = name THEN <<r>> ELSE map[k]]
         IN  push_all(next, Tail(results))

(* compare loop of main: compare_many returned *)
CompareLoopProbeDone ==
    /\ pc = "inflight"
    /\ args.mode = "compare"
    /\ AllDone(futs)
    /\ LET res == compare_many(FutureResults(futs), <<>>)
       IN  /\ UNCHANGED <<futs, net_log>>
           /\ batch' = Some(res)
           /\ IF res.ok
                 THEN /\ all_map' = push_all(all_map, res.val)
                      /\ NextOrBreak
                      /\ UNCHANGED <<exit_code, out>>
                 ELSE /\ Exit(handle_error(res), <<Event("error", res.kind, 0)>>)
                      /\ UNCHANGED <<n, all_map, sleeps>>
    /\ UNCHANGED <<tui_app, sys_clock, stats_calls, sigints, call, ret, args, targets, all, order, iterations,
                   cancelled>>

(* the sleep between two iterations ran to its end *)
SleepElapsed ==
    /\ pc = "sleeping"
    /\ args.infinite => iterations < MaxCount
    /\ pc' = "loop_top"
    /\ UNCHANGED <<tui_app, sys_clock, net_log, stats_calls, sigints, call, ret, args, targets, n, all, all_map, futs, order, batch, iterations,
                   sleeps, cancelled, exit_code, out>>

CtrlCIgnored ==
    /\ pc = "sleeping"
    /\ args.infinite
    /\ iterations < MaxCount
    /\ cancelled' = TRUE
    /\ pc' = "loop_top"
    /\ UNCHANGED <<tui_app, sys_clock, net_log, stats_calls, sigints, call, ret, args, targets, n, all, all_map, futs, order, batch, iterations,
                   sleeps, exit_code, out>>

(* select!: signal::ctrl_c() resolved before the sleep (infinite mode only) *)
CtrlC ==
    /\ pc = "sleeping"
    /\ args.infinite
    /\ cancelled' = TRUE
    /\ pc' = "after_loop"
    /\ UNCHANGED <<tui_app, sys_clock, net_log, stats_calls, sigints, call, ret, args, targets, n, all, all_map, futs, order, batch, iterations,
                   sleeps, exit_code, out>>

(* ------------------------------ one-shot sync -------------------------- *)
(* what clock_settime can answer to a root process *)
SettimeResults == {"ok", "EPERM", "EACCES", "EINVAL"}

SyncOutcome(calls, stepped, result) ==
    [settime_calls |-> calls, steps |-> IF stepped THEN 1 ELSE 0, result |-> result]

step_to_utc_unchecked(dry_run, rc) ==
    SyncOutcome(1, rc = "ok",
                CASE rc = "ok" -> Ok("unit")
                  [] rc \in {"EPERM", "EACCES"} -> Err("Permission", rc)
                  [] OTHER -> Err("Sys", rc))

(* sync/mod.rs step_to_utc (unix): returns before clock_settime on dry_run *)
step_to_utc(dry_run, rc) ==
    IF dry_run THEN SyncOutcome(0, FALSE, Ok("unit"))
    ELSE SyncOutcome(1, rc = "ok",
                     CASE rc = "ok" -> Ok("unit")
                       [] rc \in {"EPERM", "EACCES"} -> Err("Permission", rc)
                       [] OTHER -> Err("Sys", rc))

(* chrono: the first and the last instant of DateTime<Utc>, the years     *)
(* -262143 and 262142, in seconds before and after the epoch, and the      *)
(* reading of Utc::now(), a date of the 2020s; in microseconds             *)
MicrosPerSec(secs) == NatMulSmall(NatMulSmall(secs, 1000), 1000)
MinUtcMicros == MicrosPerSec(NatFromDigits(<<8, 3, 3, 4, 6, 0, 1, 2, 2, 8, 8, 0, 0>>))
MaxUtcMicros ==
    NatSub(MicrosPerSec(NatFromDigits(<<8, 2, 1, 0, 2, 6, 6, 8, 7, 6, 8, 0, 0>>)), <<1>>)
UtcNowMicros == MicrosPerSec(NatFromDigits(<<1, 7, 9, 3, 4, 0, 4, 8, 0, 0>>))

(* Utc::now() + Duration::microseconds(offset_us) leaves the range of      *)
(* DateTime<Utc>: the addition panics                                      *)
DateTimeOverflows(offset_us) ==
    IF offset_us.neg
    THEN NatLess(NatAdd(UtcNowMicros, MinUtcMicros), offset_us.mag)
    ELSE NatLess(NatSub(MaxUtcMicros, UtcNowMicros), offset_us.mag)

(* let offset_us = (probe.offset_ms * 1000.0).round() as i64 *)
offset_us_of(offset_ms) == f64_as_i64(f64_round(f64_mul_small(offset_ms, 1000)))

(* sync/mod.rs sync_from_probe: the target time is computed first, also on *)
(* a dry run, and a target out of range panics before step_to_utc          *)
sync_from_probe(probe, dry_run, rc) ==
    IF DateTimeOverflows(offset_us_of(probe.offset_ms))
    THEN SyncOutcome(0, FALSE, Err("panic", "DateTime + TimeDelta overflowed"))
    ELSE step_to_utc(dry_run, rc)

(* bin/rkik.rs average_probe: results.last().unwrap() panics on no result *)
average_probe(results) ==
    IF results = <<>> THEN Err("panic", "unwrap on None")
    ELSE Ok([results[Len(results)] EXCEPT
                !.offset_ms = f64_div_count(SumFrom(results, "offset_ms", F64Zero),
                                            Len(results)),
                !.rtt_ms = f64_div_count(SumFrom(results, "rtt_ms", F64Zero),
                                         Len(results))])

(* bin/rkik.rs query_loop, sync block, the match on sync_from_probe: exit   *)
(* code, lines printed, clock calls                                        *)
sync_report(a, count, root, done) ==
    [code |-> CASE done.result.ok -> 0
                [] done.result.kind = "panic" -> 101
                [] done.result.kind = "Permission" -> 12
                [] OTHER -> 14,
     events |->
         IF ~done.result.ok /\ done.result.kind = "panic"
         THEN <<Event("panic", "sync_from_probe", 0)>>
         ELSE IF ~done.result.ok THEN <<Event("error", done.result.kind, 0)>>
         ELSE IF ~root THEN <<Event("sync", "need root", 0)>>
         ELSE IF a.dry_run THEN <<Event("sync", "skipped", 0)>>
         ELSE <<Event("sync", "applied", count)>>,
     settime_calls |-> done.settime_calls, steps |-> done.steps]

(* bin/rkik.rs query_loop, sync block after average_probe returned or      *)
(* panicked                                                                *)
sync_with_probe(a, count, root, rc, probe) ==
    IF ~probe.ok
    THEN [code |-> 101, events |-> <<Event("panic", "average_probe", 0)>>,
          settime_calls |-> 0, steps |-> 0]
    ELSE sync_report(a, count, root,
                     sync_from_probe(probe.val, ~root \/ a.dry_run, rc))

(* bin/rkik.rs query_loop, sync block *)
sync_block(a, results, root, rc) ==
    sync_with_probe(a, Len(results), root, rc, average_probe(results))

(* query_loop after the loop: the slices given to compute_stats, for the   *)
(* statistics line and for the plugin line                                 *)
stats_inputs_skip_first(samples, plugin) ==
    (IF Len(samples) > 1 /\ ~plugin THEN {Tail(samples)} ELSE {})
      \cup (IF plugin /\ samples # <<>> THEN {Tail(samples)} ELSE {})

stats_inputs(samples, plugin) ==
    (IF Len(samples) > 1 /\ ~plugin THEN {samples} ELSE {})
      \cup (IF plugin /\ samples # <<>> THEN {samples} ELSE {})

(* query_loop after the loop: the statistics line, printed for more than   *)
(* one sample outside plugin mode                                          *)
stats_line(samples, plugin) ==
    IF Len(samples) > 1 /\ ~plugin
    THEN <<Event("stats", "", compute_stats(samples).count)>>
    ELSE <<>>

(* query_loop, plugin block: the status line and the exit with its code    *)
PluginExit(summary, stats, code) ==
    Exit(code, summary \o <<Event("status", plugin_state(code), stats.count)>>)

PluginLine(summary, stats) ==
    PluginExit(summary, stats, plugin_exit_code(stats, args.warning, args.critical))

(* query_loop, sync block: its lines, its clock calls and its exit code    *)
SyncLine(summary, sync) ==
    /\ sys_clock' = [sys_clock EXCEPT !.settime_calls = @ + sync.settime_calls,
                                      !.steps = @ + sync.steps]
    /\ Exit(sync.code, summary \o sync.events)

AfterLoopSingleWith(summary) ==
    IF args.plugin
    THEN /\ IF all = <<>>
            THEN Exit(3, summary \o <<Event("status", "UNKNOWN", 0)>>)
            ELSE PluginLine(summary, compute_stats(all))
         /\ UNCHANGED sys_clock
    ELSE IF args.sync
    THEN \E rc \in SettimeResults :
            SyncLine(summary, sync_block(args, all, sys_clock.root, rc))
    ELSE /\ Exit(0, summary)
         /\ UNCHANGED sys_clock

(* query_loop after the loop: statistics line, plugin line, sync block,    *)
(* return to main                                                          *)
AfterLoopSingle ==
    /\ pc = "after_loop"
    /\ args.mode = "single"
    /\ stats_calls' = stats_calls \cup stats_inputs(all, args.plugin)
    /\ AfterLoopSingleWith(stats_line(all, args.plugin))
    /\ UNCHANGED <<tui_app, net_log, sigints, call, ret, args, targets, n, all, all_map, futs,
                   order, batch, iterations, sleeps, cancelled>>

RECURSIVE TotalLen(_, _)
TotalLen(map, keys) ==
    IF keys = {} THEN 0
    ELSE LET k == CHOOSE x \in keys : TRUE
         IN  Len(map[k]) + TotalLen(map, keys \ {k})

(* fmt/json.rs stats_list_to_json: max_avg_drift is Some only for more     *)
(* than one entry                                                          *)
stats_list_to_json(n_series) ==
    <<Event("summary", "json", n_series)>>
      \o (IF n_series > 1 THEN <<Event("drift", "json", n_series)>> ELSE <<>>)

(* the text arm: one line per entry, then the "Max avg drift" line         *)
render_stats_list(n_series) ==
    <<Event("summary", "text", n_series), Event("drift", "text", n_series)>>

(* all.into_iter().map(|(name, vals)| (name, compute_stats(&vals))): one   *)
(* call per entry of the map                                               *)
stats_inputs_compare(map) == {map[k] : k \in DOMAIN map}

(* main after the compare loop: per-target statistics when more samples    *)
(* than targets were collected                                             *)
AfterLoopCompare ==
    /\ pc = "after_loop"
    /\ args.mode = "compare"
    /\ IF TotalLen(all_map, DOMAIN all_map) > Len(targets)
       THEN /\ stats_calls' = stats_calls \cup stats_inputs_compare(all_map)
            /\ Exit(0, IF args.format = "json"
                       THEN stats_list_to_json(Cardinality(DOMAIN all_map))
                       ELSE render_stats_list(Cardinality(DOMAIN all_map)))
       ELSE /\ stats_calls' = stats_calls
            /\ Exit(0, <<>>)
    /\ UNCHANGED <<tui_app, sys_clock, net_log, sigints, call, ret, args, targets, n, all, all_map, futs, order, batch,
                   iterations, sleeps, cancelled>>

Next ==
    \/ Validate
    \/ BeginIteration
    \/ \E i \in 1..Len(futs) : FirstPoll(i)
    \/ \E i \in 1..Len(futs) : ResolverReturns(i)
    \/ \E i \in 1..Len(futs) : ProbeComplete(i)
    \/ QueryLoopProbeDone
    \/ CompareLoopProbeDone
    \/ SleepElapsed
    \/ CtrlC
    \/ AfterLoopSingle
    \/ AfterLoopCompare

Spec == Init /\ [][Next]_vars

(* --------------------------- interrupt signals ------------------------- *)
(* signal::ctrl_c() is polled in the select! of the infinite sleep only.   *)
(* Elsewhere the loops await query_one / compare_many or the plain sleep,  *)
(* and no branch of the program sees an interrupt that arrives there.      *)
Unobserving ==
    \/ pc = "inflight"
    \/ pc = "sleeping" /\ ~args.infinite

(* The first call of signal::ctrl_c() registers the handler of SIGINT for  *)
(* the rest of the process; until then the signal has its default          *)
(* disposition, which ends the process.  The first call is made by the     *)
(* first sleep of an infinite run.                                         *)
HandlerInstalled == args.infinite /\ sleeps >= 1

(* one interrupt is recorded for each await of each iteration *)
FirstOfAwait ==
    \A j \in 1..Len(sigints) :
        sigints[j] # [at |-> pc, iteration |-> iterations]

(* an interrupt while no ctrl_c() future is polled, the handler being      *)
(* registered: the signal is consumed by the handler and wakes nothing     *)
SigintUnobserved ==
    /\ Unobserving
    /\ HandlerInstalled
    /\ Len(sigints) < MaxCount
    /\ FirstOfAwait
    /\ sigints' = Append(sigints, [at |-> pc, iteration |-> iterations])
    /\ UNCHANGED <<tui_app, sys_clock, net_log, stats_calls, call, ret, args, targets, pc, n,
                   all, all_map, futs, order, batch, iterations, sleeps, cancelled,
                   exit_code, out>>

(* the process is running: main has neither returned nor been killed *)
Running == pc \notin {"exited", "killed"}

(* an interrupt before any call of ctrl_c(): the process is killed by the  *)
(* signal where it stands, be it in an await, inside a blocking resolver   *)
(* call or between two statements; it prints nothing more and has no exit  *)
(* code                                                                    *)
SigintKills ==
    /\ Running
    /\ ~HandlerInstalled
    /\ sigints' = Append(sigints, [at |-> pc, iteration |-> iterations])
    /\ pc' = "killed"
    /\ UNCHANGED <<tui_app, sys_clock, net_log, stats_calls, call, ret, args, targets, n, all,
                   all_map, futs, order, batch, iterations, sleeps, cancelled, exit_code,
                   out>>

(* the runs of both loops without thresholds, under interrupts at any await *)
InitSignals ==
    /\ args \in {a \in ArgsSet : /\ ~a.plugin /\ ~a.nts /\ a.format = "text"
                               /\ a.interval = DefaultInterval}
    /\ targets \in TargetsFor(args.mode)
    /\ pc = "start"
    /\ Idle

NextSignals ==
    \/ Next
    \/ SigintUnobserved
    \/ SigintKills

SpecSignals == InitSignals /\ [][NextSignals]_vars

(* ---------------------------- runs with --sync ------------------------- *)
(* the command lines with and without --sync and --dry-run, run as root or *)
(* as an ordinary user                                                     *)
SyncArgsSet ==
    [mode : {"single", "compare"}, plugin : BOOLEAN, warning : {None},
     critical : {None}, infinite : BOOLEAN, count : 0..MaxCount,
     interval : {DefaultInterval}, nts : {FALSE}, ipv6 : {FALSE}, format : {"text"},
     sync : BOOLEAN, dry_run : BOOLEAN]

InitSync ==
    /\ args \in SyncArgsSet
    /\ targets \in TargetsFor(args.mode)
    /\ pc = "start"
    /\ n = 0 /\ all = <<>> /\ all_map = <<>> /\ futs = <<>> /\ order = <<>>
    /\ batch = None /\ iterations = 0 /\ sleeps = 0 /\ cancelled = FALSE
    /\ exit_code = None /\ out = <<>> /\ call = None /\ ret = None
    /\ sigints = <<>> /\ stats_calls = {} /\ net_log = <<>>
    /\ sys_clock \in [root : BOOLEAN, settime_calls : {0}, steps : {0}]
    /\ tui_app = None

SpecSync == InitSync /\ [][Next]_vars

(* --------------------- compare_many / query_one alone ------------------ *)
LibraryArgs(mode, ipv6s) ==
    [mode : {mode}, plugin : {FALSE}, warning : {None}, critical : {None},
     infinite : {FALSE}, count : {DefaultCount}, interval : {DefaultInterval},
     nts : BOOLEAN, ipv6 : ipv6s, format : {"text"}, sync : {FALSE}, dry_run : {FALSE}]

InitFanout ==
    /\ args \in LibraryArgs("fanout", {FALSE})
    /\ targets \in SeqsOf(FanoutTargets, 1, MaxTargets + 1)
    /\ pc = "call"
    /\ Idle

InitQuery ==
    /\ args \in LibraryArgs("query", BOOLEAN)
    /\ targets \in SeqsOf(QueryTargets, 1, 1)
    /\ pc = "call"
    /\ Idle

(* compare_many: one query_one future per target, join_all polls each once *)
CompareManyCall ==
    /\ pc = "call"
    /\ \E dnss \in DnsChoices :
          /\ futs' = StartFutures(dnss)
          /\ order' = DoneAtStart(StartFutures(dnss))
    /\ pc' = "joining"
    /\ UNCHANGED <<tui_app, sys_clock, net_log, stats_calls, sigints, call, ret, args, targets, n, all, all_map, batch, iterations, sleeps,
                   cancelled, exit_code, out>>

(* the probe awaited by future i completes, in any order *)
FutureComplete(i) ==
    /\ pc = "joining"
    /\ futs[i].pc = "inflight"
    /\ \E f \in Completions(futs, i) :
          futs' = [futs EXCEPT ![i] = f]
    /\ order' = Append(order, i)
    /\ UNCHANGED <<tui_app, sys_clock, net_log, stats_calls, sigints, call, ret, args, targets, pc, n, all, all_map, batch, iterations, sleeps,
                   cancelled, exit_code, out>>

JoinedByCompletion(fs, completion_order) ==
    [k \in 1..Len(completion_order) |-> Unwrap(fs[completion_order[k]].result)]

(* join_all resolved: every future is done; its output has the results in  *)
(* the order of the futures, whatever the order they completed in          *)
JoinedResults(fs, completion_order) == FutureResults(fs)

CompareManyReturnEarly ==
    /\ pc = "joining"
    /\ \E i \in 1..Len(futs) :
          /\ futs[i].pc = "done"
          /\ ~Unwrap(futs[i].result).ok
          /\ batch' = Some(Unwrap(futs[i].result))
    /\ pc' = "returned"
    /\ UNCHANGED <<tui_app, sys_clock, net_log, stats_calls, sigints, call, ret, args, targets, n, all, all_map, futs, order, iterations, sleeps,
                   cancelled, exit_code, out>>

CompareManyReturn ==
    /\ pc = "joining"
    /\ \A i \in 1..Len(futs) : futs[i].pc = "done"
    /\ batch' = Some(compare_many(JoinedResults(futs, order), <<>>))
    /\ pc' = "returned"
    /\ UNCHANGED <<tui_app, sys_clock, net_log, stats_calls, sigints, call, ret, args, targets, n, all, all_map, futs, order, iterations, sleeps,
                   cancelled, exit_code, out>>

NextFanout ==
    \/ CompareManyCall
    \/ \E i \in 1..Len(futs) : FutureComplete(i)
    \/ CompareManyReturn

SpecFanout == InitFanout /\ [][NextFanout]_vars

SpecQuery == InitQuery /\ [][NextFanout]_vars

(* ------------- parse_target / resolve_ip called on their own ----------- *)
(* every string of at most MaxLen characters over the characters the       *)
(* grammar of parse_target distinguishes                                   *)
TargetAlphabet == {"a", ":", "[", "]", "1", " "}
ShortStrings == SeqsOf(TargetAlphabet, 0, MaxLen)

(* port texts: around the bounds of u16 and of u32, signs, padding, junk   *)
PortTexts ==
    {<<>>, <<"0">>, <<"1">>, <<"0", "1">>, <<"+", "1">>, <<"-", "1">>,
     <<"1", "2", "3">>, <<"6", "5", "5", "3", "5">>, <<"6", "5", "5", "3", "6">>,
     <<"7", "0", "0", "0", "0">>,
     <<"4", "2", "9", "4", "9", "6", "7", "2", "9", "5">>,
     <<"4", "2", "9", "4", "9", "6", "7", "2", "9", "6">>,
     <<"a">>, <<" ", "1">>, <<"1", "a">>}

HostTexts ==
    {<<>>, <<"a">>, <<"a", ".", "b">>, <<"1", ".", "2">>, <<":", ":", "1">>,
     <<"2", "0", "0", "1", ":", "d", "b", "8", ":", ":", "1">>}

(* "2001:db8::1:123" *)
T_v6_portlike ==
    <<"2", "0", "0", "1", ":", "d", "b", "8", ":", ":", "1", ":", "1", "2", "3">>

HostPortStrings == {h \o <<":">> \o p : h \in HostTexts, p \in PortTexts}
BracketedStrings ==
    {<<"[">> \o h \o <<"]">> : h \in HostTexts}
      \cup {<<"[">> \o h \o <<"]", ":">> \o p : h \in HostTexts, p \in PortTexts}
Pads == {<<" ", " ">>, <<"\t", "\n">>, <<"U+00A0", "\r">>, <<"U+3000", "U+000B">>}
Padded(S) == UNION {{<<w[1]>> \o x \o <<w[2]>> : x \in S} : w \in Pads}

ParseInputs ==
    ShortStrings \cup HostTexts \cup HostPortStrings \cup BracketedStrings
      \cup Padded(HostPortStrings) \cup Padded({<<>>}) \cup {T_v6_portlike}

(* what to_socket_addrs can give: an error, or a list of at most MaxLen    *)
(* addresses of either family, each one distinct                           *)
AddrLists ==
    {[k \in 1..Len(fams) |-> [fam |-> fams[k], id |-> k]] :
        fams \in SeqsOf({"v4", "v6"}, 0, MaxLen)}
ResolverAnswers == {DnsFail} \cup {Ok(l) : l \in AddrLists}

(* samples of a series: offsets and round trips in milliseconds, decimal   *)
(* fractions and whole numbers, of either sign                             *)
Sample(offset, rtt) == [offset_ms |-> offset, rtt_ms |-> rtt]
StatsSamples ==
    {Sample(F64FromRatio(1, 1, 10), F64FromRatio(1, 1, 10)),
     Sample(F64FromRatio(1, 2, 10), F64FromRatio(1, 7, 10)),
     Sample(F64FromRatio(1, 3, 10), F64FromInt(1)),
     Sample(F64FromInt(1), F64FromInt(1)),
     Sample(F64FromInt(-1), F64FromInt(2)),
     Sample(F64FromInt(3), F64FromRatio(1, 3, 10))}

Call(fn, a) == [fn |-> fn, args |-> a]

(* offsets given to sync_from_probe by a caller of the library: those of   *)
(* an exchange, and the finite values around and beyond the range of       *)
(* DateTime<Utc> (8e15, 1e16 and 1e300 milliseconds), of either sign;      *)
(* 1e300 is 0x1.7e43c8800759cp+996                                         *)
Huge(sign) == F64("finite", sign, <<30108, 4096, 4338, 191>>, 944)

SyncOffsets ==
    {F64Zero, F64FromInt(1), F64FromInt(-1), F64FromRatio(1, 5, 10000),
     F64FromDecimal(1, 8, 15), F64FromDecimal(-1, 8, 15),
     F64FromDecimal(1, 1, 16), F64FromDecimal(-1, 1, 16),
     Huge(1), Huge(-1),
     F64NaN, F64Infinity(1), F64Infinity(-1)}

QueryOneCalls ==
    UNION {{Call("query_one", <<t, v6, nts, d, w>>) :
               v6 \in BOOLEAN, nts \in BOOLEAN,
               d \in DnsAnswersFor(t, DnsAnswers), w \in Wires({1})} :
           t \in QueryTargets}

QueryTargetCalls ==
    UNION {{Call("query_target", <<t, v6, d>>) :
               v6 \in BOOLEAN, d \in DnsAnswersFor(t, DnsAnswers)} :
           t \in QueryTargets}

InitLibrary ==
    /\ args \in {a \in LibraryArgs("library", {FALSE}) : ~a.nts}
    /\ targets = <<>>
    /\ pc = "call"
    /\ n = 0 /\ all = <<>> /\ all_map = <<>> /\ futs = <<>> /\ order = <<>>
    /\ batch = None /\ iterations = 0 /\ sleeps = 0 /\ cancelled = FALSE
    /\ exit_code = None /\ out = <<>>
    /\ ret = None /\ sigints = <<>> /\ stats_calls = {} /\ net_log = <<>>
    /\ sys_clock = [root |-> FALSE, settime_calls |-> 0, steps |-> 0]
    /\ tui_app = None
    /\ \/ call \in {Call("parse_target", <<s>>) : s \in ParseInputs}
       \/ call \in {Call("resolve_ip", <<a, v6>>) : a \in ResolverAnswers, v6 \in BOOLEAN}
       \/ call \in {Call("compute_stats", <<series>>) :
                        series \in SeqsOf(StatsSamples, 1, MaxLen)}
       \/ call \in QueryOneCalls
       \/ call \in QueryTargetCalls
       \/ call \in {Call("NtsErrorKind::plugin_exit_code", <<k>>) : k \in NtsErrorKinds}
       \/ call \in {Call("sync_from_probe", <<o, dry, rc>>) :
                        o \in SyncOffsets, dry \in BOOLEAN, rc \in SettimeResults}

Return(value) ==
    /\ ret' = Some(value)
    /\ pc' = "returned"
    /\ UNCHANGED <<tui_app, sys_clock, net_log, stats_calls, sigints, call, args, targets, n, all, all_map, futs, order, batch,
                   iterations, sleeps, cancelled, exit_code, out>>

SyncReturn(done) ==
    /\ ret' = Some(done.result)
    /\ sys_clock' = [sys_clock EXCEPT !.settime_calls = @ + done.settime_calls,
                                      !.steps = @ + done.steps]
    /\ pc' = "returned"
    /\ UNCHANGED <<tui_app, net_log, stats_calls, sigints, call, args, targets, n, all,
                   all_map, futs, order, batch, iterations, sleeps, cancelled, exit_code,
                   out>>

ParseTargetCall ==
    /\ pc = "call"
    /\ call.fn = "parse_target"
    /\ Return(parse_target(call.args[1]))

ResolveIpCall ==
    /\ pc = "call"
    /\ call.fn = "resolve_ip"
    /\ Return(resolve_ip(call.args[1], call.args[2]))

(* query_one is called and runs to its first await, or to an early return *)
QueryOneCall ==
    /\ pc = "call"
    /\ call.fn = "query_one"
    /\ futs' = <<query_one_start(call.args[1], call.args[2], call.args[3], call.args[4])>>
    /\ IF futs'[1].pc = "done"
       THEN ret' = Some(futs'[1]) /\ pc' = "returned"
       ELSE ret' = ret /\ pc' = "awaiting"
    /\ UNCHANGED <<tui_app, sys_clock, net_log, stats_calls, sigints, call, args, targets, n,
                   all, all_map, order, batch, iterations, sleeps, cancelled, exit_code,
                   out>>

(* the probe awaited by query_one completes and query_one returns *)
QueryOneResume ==
    /\ pc = "awaiting"
    /\ call.fn = "query_one"
    /\ futs' = <<query_one_finish(futs[1], call.args[1], call.args[2], call.args[3],
                                  call.args[4], call.args[5])>>
    /\ ret' = Some(futs'[1])
    /\ pc' = "returned"
    /\ UNCHANGED <<tui_app, sys_clock, net_log, stats_calls, sigints, call, args, targets, n,
                   all, all_map, order, batch, iterations, sleeps, cancelled, exit_code,
                   out>>

QueryTargetCall ==
    /\ pc = "call"
    /\ call.fn = "query_target"
    /\ Return(query_target(call.args[1], call.args[2], call.args[3]))

ComputeStatsCall ==
    /\ pc = "call"
    /\ call.fn = "compute_stats"
    /\ Return(compute_stats(call.args[1]))

NtsPluginExitCodeCall ==
    /\ pc = "call"
    /\ call.fn = "NtsErrorKind::plugin_exit_code"
    /\ Return(NtsErrorKind_plugin_exit_code(call.args[1]))

(* sync_from_probe called with a probe of the given offset *)
SyncFromProbeCall ==
    /\ pc = "call"
    /\ call.fn = "sync_from_probe"
    /\ SyncReturn(sync_from_probe([offset_ms |-> call.args[1]], call.args[2],
                                  call.args[3]))

NextLibrary ==
    \/ SyncFromProbeCall
    \/ ParseTargetCall
    \/ ResolveIpCall
    \/ ComputeStatsCall
    \/ QueryOneCall
    \/ QueryOneResume
    \/ QueryTargetCall
    \/ NtsPluginExitCodeCall

SpecLibrary == InitLibrary /\ [][NextLibrary]_vars

(* ------------------------------- tui/mod.rs ---------------------------- *)
(* ServerStatus::new *)
ServerStatus_new(name) ==
    [name |-> name, offset_ms |-> None, delay_ms |-> None, stratum |-> None,
     last_query |-> None, success |-> FALSE, error |-> None]

(* ServerStatus::update_from_result; the Instant of the query is not kept  *)
(* apart from its presence                                                 *)
update_from_result(server, result) ==
    [server EXCEPT !.offset_ms = Some(result.offset_ms),
                   !.delay_ms = Some(result.rtt_ms),
                   !.stratum = Some(result.stratum),
                   !.last_query = Some("now"),
                   !.success = TRUE,
                   !.error = None]

(* ServerStatus::update_error *)
update_error(server, error) ==
    [server EXCEPT !.last_query = Some("now"), !.success = FALSE,
                   !.error = Some(error)]

(* GlobalStats::default *)
GlobalStats_default ==
    [total_queries |-> 0, successful_queries |-> 0, failed_queries |-> 0,
     avg_offset |-> F64Zero, avg_delay |-> F64Zero, min_offset |-> F64Zero,
     max_offset |-> F64Zero, current_cycle |-> 0]

(* TuiApp::new *)
TuiApp_new(server_names) ==
    [servers |-> [i \in 1..Len(server_names) |-> ServerStatus_new(server_names[i])],
     stats |-> GlobalStats_default,
     should_quit |-> FALSE, paused |-> FALSE,
     total_servers |-> Len(server_names), completed_this_cycle |-> 0]

(* self.servers.iter_mut().find(|s| s.name == server_name): the index of   *)
(* the first server of that name, 0 when there is none                     *)
find_server(servers, server_name) ==
    LET hits == {i \in 1..Len(servers) : servers[i].name = server_name}
    IN  IF hits = {} THEN 0 ELSE CHOOSE i \in hits : \A j \in hits : i <= j

(* TuiApp::recalculate_stats *)
recalculate_stats(app) ==
    LET successful == SelectSeq(app.servers,
                                LAMBDA sv : sv.success /\ IsSome(sv.offset_ms))
        samples == [i \in 1..Len(successful) |->
                       [offset_ms |-> Unwrap(successful[i].offset_ms),
                        rtt_ms |-> Unwrap(successful[i].delay_ms)]]
    IN  IF successful = <<>> THEN app
        ELSE [app EXCEPT
                 !.stats.avg_offset =
                     f64_div_count(SumFrom(samples, "offset_ms", F64Zero), Len(samples)),
                 !.stats.min_offset = FoldMin(samples, F64Infinity(1)),
                 !.stats.max_offset = FoldMax(samples, F64Infinity(-1)),
                 !.stats.avg_delay =
                     f64_div_count(SumFrom(samples, "rtt_ms", F64Zero), Len(samples))]

(* TuiApp::update_server *)
update_server(app, server_name, result) ==
    LET i == find_server(app.servers, server_name)
    IN  IF i = 0 THEN app
        ELSE recalculate_stats(
                 [app EXCEPT !.servers[i] = update_from_result(@, result),
                             !.stats.successful_queries = @ + 1,
                             !.stats.total_queries = @ + 1,
                             !.completed_this_cycle = @ + 1])

update_server_error_uncounted(app, server_name, error) ==
    LET i == find_server(app.servers, server_name)
    IN  IF i = 0 THEN app
        ELSE [app EXCEPT !.servers[i] = update_error(@, error),
                         !.stats.failed_queries = @ + 1,
                         !.completed_this_cycle = @ + 1]

(* TuiApp::update_server_error *)
update_server_error(app, server_name, error) ==
    LET i == find_server(app.servers, server_name)
    IN  IF i = 0 THEN app
        ELSE [app EXCEPT !.servers[i] = update_error(@, error),
                         !.stats.failed_queries = @ + 1,
                         !.stats.total_queries = @ + 1,
                         !.completed_this_cycle = @ + 1]

(* TuiApp::start_new_cycle *)
start_new_cycle(app) ==
    [app EXCEPT !.completed_this_cycle = 0, !.stats.current_cycle = @ + 1]

(* TuiApp::handle_key *)
handle_key(app, key) ==
    CASE key \in {"q", "Q", "Esc"} -> [app EXCEPT !.should_quit = TRUE]
      [] key \in {"p", "P"} -> [app EXCEPT !.paused = ~app.paused]
      [] OTHER -> app

(* the dashboards built, the names, results and keys given to them *)
TuiServerLists == {<<T_a>>, <<T_a, T_b>>, <<T_a, T_a>>}
TuiNames == {T_a, T_b, T_zero}
TuiResults ==
    [name : {T_a}, offset_ms : {F64FromInt(-1), F64FromRatio(1, 1, 10)},
     rtt_ms : {F64FromInt(1)}, stratum : {2}]
TuiKeys == {"q", "Q", "Esc", "p", "P", "x", "Enter"}

cli_vars ==
    <<args, targets, pc, n, all, all_map, futs, order, batch, iterations, sleeps,
      cancelled, exit_code, out, ret, sigints, stats_calls, net_log, sys_clock>>

InitTui ==
    /\ args \in {a \in LibraryArgs("tui", {FALSE}) : ~a.nts}
    /\ targets \in TuiServerLists
    /\ pc = "tui"
    /\ n = 0 /\ all = <<>> /\ all_map = <<>> /\ futs = <<>> /\ order = <<>>
    /\ batch = None /\ iterations = 0 /\ sleeps = 0 /\ cancelled = FALSE
    /\ exit_code = None /\ out = <<>> /\ ret = None
    /\ call = Call("new", <<targets>>)
    /\ sigints = <<>> /\ stats_calls = {} /\ net_log = <<>>
    /\ sys_clock = [root |-> FALSE, settime_calls |-> 0, steps |-> 0]
    /\ tui_app = TuiApp_new(targets)

UpdateServer ==
    /\ pc = "tui"
    /\ tui_app.stats.total_queries < MaxCount + 1
    /\ \E server_name \in TuiNames, result \in TuiResults :
          /\ call' = Call("update_server", <<server_name, result>>)
          /\ tui_app' = update_server(tui_app, server_name, result)
    /\ UNCHANGED cli_vars

UpdateServerError ==
    /\ pc = "tui"
    /\ tui_app.stats.total_queries < MaxCount + 1
    /\ \E server_name \in TuiNames :
          /\ call' = Call("update_server_error", <<server_name, "timeout">>)
          /\ tui_app' = update_server_error(tui_app, server_name, "timeout")
    /\ UNCHANGED cli_vars

StartNewCycle ==
    /\ pc = "tui"
    /\ tui_app.stats.current_cycle < MaxCount
    /\ call' = Call("start_new_cycle", <<>>)
    /\ tui_app' = start_new_cycle(tui_app)
    /\ UNCHANGED cli_vars

HandleKey ==
    /\ pc = "tui"
    /\ \E key \in TuiKeys :
          /\ call' = Call("handle_key", <<key>>)
          /\ tui_app' = handle_key(tui_app, key)
    /\ UNCHANGED cli_vars

NextTui ==
    \/ UpdateServer
    \/ UpdateServerError
    \/ StartNewCycle
    \/ HandleKey

SpecTui == InitTui /\ [][NextTui]_vars

(* =============================== claims ================================ *)
OkValues(results) ==
    LET oks == SelectSeq(results, LAMBDA r : r.ok)
    IN  [k \in 1..Len(oks) |-> oks[k].val]

SomeFailed(fs) == \E i \in 1..Len(fs) : ~Unwrap(fs[i].result).ok
SomeSucceeded(fs) == \E i \in 1..Len(fs) : Unwrap(fs[i].result).ok

(* C1: when some but not all of the targets of one compare_many call fail, *)
(* the call returns Ok with exactly the measurements of the targets that   *)
(* succeeded, in input order, and no error for the batch.                  *)
C1_FanoutIndependence ==
    (pc = "returned" /\ SomeFailed(futs) /\ SomeSucceeded(futs)) =>
        /\ Unwrap(batch).ok
        /\ Unwrap(batch).val = OkValues(FutureResults(futs))

(* C2: the i-th measurement returned by compare_many is the one of the     *)
(* i-th input target, whatever the order in which the probes completed.    *)
C2_InputOrder ==
    (pc = "returned" /\ Unwrap(batch).ok) =>
        /\ Len(Unwrap(batch).val) = Len(targets)
        /\ \A i \in 1..Len(targets) :
              /\ Unwrap(batch).val[i] = Unwrap(futs[i].result).val
              /\ Unwrap(batch).val[i].name = targets[i]

C2_Witness ==
    /\ pc = "returned"
    /\ Unwrap(batch).ok
    /\ Len(targets) >= 2
    /\ targets[1] # targets[2]
    /\ order[1] # 1

RunFailed ==
    \E k \in 1..Len(out) :
        out[k].ev \in {"error", "usage"} \/ out[k].word = "UNKNOWN"

SamplesPerTarget(k) ==
    IF args.mode = "single" THEN Len(all) = k
    ELSE \A name \in DOMAIN all_map :
            Len(all_map[name]) =
                k * Cardinality({i \in 1..Len(targets) : targets[i] = name})

(* C3: a fixed-count run (infinite = false, count >= 1) in which every     *)
(* probe succeeds starts exactly count iterations, records exactly count   *)
(* samples and sleeps exactly count - 1 times when it leaves the loop; it  *)
(* never starts more than count iterations.                                *)
C3_FixedCount ==
    (~args.infinite /\ args.count >= 1 /\ args.mode \in {"single", "compare"}) =>
        /\ iterations <= args.count
        /\ (pc \in {"after_loop", "exited"} /\ ~RunFailed) =>
              /\ iterations = args.count
              /\ n = args.count
              /\ SamplesPerTarget(args.count)
              /\ sleeps = args.count - 1

C3_Witness ==
    /\ ~args.infinite
    /\ args.count = MaxCount
    /\ args.mode = "single"
    /\ pc = "exited"
    /\ ~RunFailed
    /\ Len(all) = MaxCount
    /\ sleeps = MaxCount - 1

(* C4: in infinite mode, once the cancellation signal has won the race     *)
(* against the sleep the loop is over: no probe is in flight or started    *)
(* again, and every iteration started has its samples in the series.       *)
C4_CancelKeepsSamples ==
    cancelled =>
        /\ args.infinite
        /\ pc \in {"after_loop", "exited"}
        /\ n = iterations
        /\ SamplesPerTarget(iterations)
        /\ sleeps = iterations

C4_Witness ==
    /\ cancelled
    /\ args.mode = "single"
    /\ pc = "exited"
    /\ Len(all) >= 2
    /\ iterations = Len(all)

StatusWords ==
    LET st == SelectSeq(out, LAMBDA e : e.ev = "status")
    IN  [k \in 1..Len(st) |-> st[k].word]

ErrorEvents == SelectSeq(out, LAMBDA e : e.ev = "error")

LastProbeFailed ==
    /\ futs # <<>>
    /\ futs[1].pc = "done"
    /\ ~Unwrap(futs[1].result).ok

(* C5: in plugin mode, a run that ended on a failed probe, or with no      *)
(* sample at all, has printed exactly one status line, UNKNOWN, and exited *)
(* with code 3, whatever the thresholds and the samples recorded before;   *)
(* nothing went through the interactive error path.                        *)
C5_PluginFailureUnknown ==
    (args.plugin /\ pc = "exited" /\ iterations >= 1
       /\ (LastProbeFailed \/ all = <<>>)) =>
        /\ exit_code = Some(3)
        /\ StatusWords = <<"UNKNOWN">>
        /\ ErrorEvents = <<>>

C5_Witness ==
    /\ args.plugin
    /\ pc = "exited"
    /\ LastProbeFailed
    /\ Len(all) >= 1
    /\ IsSome(args.critical)
    /\ exit_code = Some(3)

Abs(x) == IF x < 0 THEN -x ELSE x

(* the whole number of milliseconds a sample of the model stands for *)
MsOf(f) == IF f.class = "zero" THEN 0 ELSE f.sign * NatShiftRight(f.mant, -f.exp).q[1]

RECURSIVE SumOffsets(_)
SumOffsets(series) ==
    IF series = <<>> THEN 0 ELSE MsOf(Head(series).offset_ms) + SumOffsets(Tail(series))

ExpectedVerdict ==
    LET a_num == Abs(SumOffsets(all))
        cnt == Len(all)
    IN  IF IsSome(args.critical) /\ a_num >= Unwrap(args.critical) * cnt THEN 2
        ELSE IF IsSome(args.warning) /\ a_num >= Unwrap(args.warning) * cnt THEN 1
        ELSE 0

WordOfCode(code) ==
    CASE code = 0 -> "OK" [] code = 1 -> "WARNING" [] code = 2 -> "CRITICAL"
      [] code = 3 -> "UNKNOWN"

(* C6: a plugin run that ended without failure and with at least one       *)
(* sample exits 2 when critical is set and |offset_avg| >= critical,       *)
(* otherwise 1 when warning is set and |offset_avg| >= warning, otherwise  *)
(* 0 (bounds inclusive); the word of every status line printed is the one  *)
(* of the exit code.                                                       *)
C6_ThresholdVerdict ==
    (args.plugin /\ pc = "exited" /\ iterations >= 1) =>
        /\ Len(StatusWords) = 1
        /\ StatusWords[1] = WordOfCode(Unwrap(exit_code))
        /\ (~LastProbeFailed /\ all # <<>>) => exit_code = Some(ExpectedVerdict)

C6_Witness ==
    /\ args.plugin
    /\ pc = "exited"
    /\ ~LastProbeFailed
    /\ Len(all) >= 2
    /\ IsSome(args.warning)
    /\ IsSome(args.critical)
    /\ Unwrap(args.warning) > 0
    /\ Abs(SumOffsets(all)) = Unwrap(args.warning) * Len(all)
    /\ exit_code = Some(1)
    /\ StatusWords = <<"WARNING">>

InvalidThresholds ==
    \/ IsSome(args.warning) /\ Unwrap(args.warning) < 0
    \/ IsSome(args.critical) /\ Unwrap(args.critical) < 0
    \/ IsSome(args.warning) /\ IsSome(args.critical)
         /\ Unwrap(args.warning) >= Unwrap(args.critical)

RejectedBeforeProbing ==
    /\ pc \in {"start", "exited"}
    /\ pc = "exited" => exit_code = Some(2)
    /\ iterations = 0
    /\ futs = <<>>

(* C7: a run whose warning is negative, whose critical is negative, or     *)
(* whose warning >= critical when both are set, exits with code 2 before   *)
(* any resolution or probe: it never enters the sampling loop.             *)
C7_ThresholdsFailFast == InvalidThresholds => RejectedBeforeProbing

C7_Witness ==
    /\ pc = "exited"
    /\ exit_code = Some(2)
    /\ IsSome(args.warning)
    /\ IsSome(args.critical)
    /\ Unwrap(args.warning) = Unwrap(args.critical)
    /\ Unwrap(args.warning) > 0
    /\ args.mode = "single"
    /\ ~sampling_error(args)

InvalidSampling ==
    \/ args.infinite /\ args.count # 1
    \/ args.interval # 1 /\ ~args.infinite /\ args.count = 1

(* C8: a run with infinite = true and a count other than 1, or with a      *)
(* non-default interval while infinite = false and count = 1, exits with   *)
(* code 2 before any probe is issued.                                      *)
C8_SamplingFlagsRejected == InvalidSampling => RejectedBeforeProbing

C8_Witness ==
    /\ pc = "exited"
    /\ exit_code = Some(2)
    /\ args.infinite
    /\ args.count = 0
    /\ ~args.plugin
    /\ args.mode = "single"

IsTimeout(err) == err.msg = "timeout"

(* C9: without --plugin, the first failing probe of a single-target run    *)
(* ends the command at once, with no further iteration and no statistics   *)
(* line, and with exit code 2 for a DNS failure, 3 for a timeout and 1 for *)
(* any other error.                                                        *)
C9_InteractiveFailure ==
    (args.mode = "single" /\ ~args.plugin /\ pc = "exited" /\ LastProbeFailed) =>
        /\ iterations = Len(all) + 1
        /\ \A k \in 1..Len(out) : out[k].ev # "stats"
        /\ exit_code =
              Some(IF Unwrap(futs[1].result).kind = "Dns" THEN 2
                   ELSE IF IsTimeout(Unwrap(futs[1].result)) THEN 3
                   ELSE 1)

Before(steps, a, b) ==
    \A j \in 1..Len(steps) :
        steps[j] = b => \E k \in 1..(j - 1) : steps[k] = a

ResolutionFailed(f) ==
    f.pc = "done" /\ ~Unwrap(f.result).ok /\ Unwrap(f.result).kind = "Dns"

ProbeSent(f) == \E j \in 1..Len(f.steps) : f.steps[j] = "probe"

(* C10: for NTP and NTS alike, query_one calls the protocol probe only     *)
(* after the target parsed and the host resolved; when parsing or          *)
(* resolution fails no probe is sent and the matching error is returned.   *)
C10_ProbeAfterResolve ==
    \A i \in 1..Len(futs) :
        /\ Before(futs[i].steps, "parse", "probe")
        /\ Before(futs[i].steps, "resolve", "probe")
        /\ ResolutionFailed(futs[i]) => ~ProbeSent(futs[i])
        /\ ~parse_target(targets[i]).ok =>
              (~ProbeSent(futs[i]) /\ Unwrap(futs[i].result) = parse_target(targets[i]))

(* --------------------------- parser claims ----------------------------- *)
Returned(fn) == pc = "returned" /\ call # None /\ call.fn = fn

Colons(s) == Len(SelectSeq(s, LAMBDA c : c = ":"))

(* C11: parse_target returns an error for the unbracketed IPv6 literal     *)
(* with a port-like suffix "2001:db8::1:123"; a result that has both an    *)
(* IPv6 literal and a port only comes from a bracketed input.              *)
C11_BareIpv6PortRejected ==
    Returned("parse_target") =>
        /\ call.args[1] = T_v6_portlike => ~Unwrap(ret).ok
        /\ (Unwrap(ret).ok /\ Unwrap(ret).val.is_ipv6_literal
                /\ IsSome(Unwrap(ret).val.port))
              => Head(Trim(call.args[1])) = "["

Arg == Trim(call.args[1])
Unbracketed == Arg # <<>> /\ Head(Arg) # "["
ColonAt == CHOOSE i \in 1..Len(Arg) : Arg[i] = ":"
BeforeColon == SubSeq(Arg, 1, ColonAt - 1)
AfterColon == SubSeq(Arg, ColonAt + 1, Len(Arg))
HostPortForm == Unbracketed /\ Colons(Arg) = 1 /\ BeforeColon # <<>>

(* the text denotes a decimal integer between 1 and 65535 *)
DenotesPort(t) ==
    LET b == IF t # <<>> /\ Head(t) = "+" THEN Tail(t) ELSE t
    IN  /\ b # <<>>
        /\ \A i \in 1..Len(b) : b[i] \in Digits
        /\ DecimalValue(b, 0) >= 1
        /\ DecimalValue(b, 0) <= 65535

PortOf(t) == LET b == IF Head(t) = "+" THEN Tail(t) ELSE t IN DecimalValue(b, 0)

(* C12: for a trimmed input that does not start with '[': no colon gives   *)
(* the whole input as host, no port, not an IPv6 literal; one colon and a  *)
(* non-empty host gives the text before the colon as host with the parsed  *)
(* port, not an IPv6 literal; two or more colons give the whole input as   *)
(* host, no port, an IPv6 literal.  is_ipv6_literal is true exactly for    *)
(* bracketed inputs and inputs with two or more colons.                    *)
C12_ColonCountGrammar ==
    (Returned("parse_target") /\ Arg # <<>>) =>
        /\ (Unbracketed /\ Colons(Arg) = 0) =>
              Unwrap(ret) = Ok([host |-> Arg, port |-> None, is_ipv6_literal |-> FALSE])
        /\ (HostPortForm /\ DenotesPort(AfterColon)) =>
              Unwrap(ret) = Ok([host |-> BeforeColon, port |-> Some(PortOf(AfterColon)),
                                is_ipv6_literal |-> FALSE])
        /\ (Unbracketed /\ Colons(Arg) >= 2) =>
              Unwrap(ret) = Ok([host |-> Arg, port |-> None, is_ipv6_literal |-> TRUE])
        /\ Unwrap(ret).ok =>
              (Unwrap(ret).val.is_ipv6_literal <=> (Head(Arg) = "[" \/ Colons(Arg) >= 2))

C12_Witness ==
    /\ Returned("parse_target")
    /\ Unbracketed
    /\ Colons(Arg) >= 2
    /\ Unwrap(ret).ok
    /\ Unwrap(ret).val.is_ipv6_literal
    /\ Unwrap(ret).val.host = Arg

(* the text after "]:" of a bracketed input *)
ClosingAt == CHOOSE i \in 1..Len(Arg) : Arg[i] = "]" /\ \A j \in 1..(i - 1) : Arg[j] # "]"
BracketPortForm ==
    /\ Arg # <<>>
    /\ Head(Arg) = "["
    /\ \E i \in 1..Len(Arg) : Arg[i] = "]"
    /\ ClosingAt < Len(Arg)
    /\ Arg[ClosingAt + 1] = ":"
AfterBracket == SubSeq(Arg, ClosingAt + 2, Len(Arg))
BetweenBrackets == SubSeq(Arg, 2, ClosingAt - 1)

(* C13: in the host:port and the [ipv6]:port forms parse_target succeeds   *)
(* with port p exactly when the port text denotes an integer p between 1   *)
(* and 65535; port 0 and every value above 65535 make the parse fail.      *)
C13_PortBounds ==
    Returned("parse_target") =>
        /\ HostPortForm =>
              IF DenotesPort(AfterColon)
              THEN Unwrap(ret).ok /\ Unwrap(ret).val.port = Some(PortOf(AfterColon))
              ELSE ~Unwrap(ret).ok
        /\ BracketPortForm =>
              IF DenotesPort(AfterBracket)
              THEN Unwrap(ret).ok /\ Unwrap(ret).val.port = Some(PortOf(AfterBracket))
              ELSE ~Unwrap(ret).ok

C13_Witness ==
    /\ Returned("parse_target")
    /\ BracketPortForm
    /\ AfterBracket = <<"6", "5", "5", "3", "5">>
    /\ Unwrap(ret).ok
    /\ Unwrap(ret).val.port = Some(65535)

(* u16::to_string *)
DigitChar(d) == CHOOSE c \in Digits : DigitVal(c) = d
RECURSIVE ToDecimal(_)
ToDecimal(v) ==
    IF v < 10 THEN <<DigitChar(v)>> ELSE Append(ToDecimal(v \div 10), DigitChar(v % 10))

(* C14: for every accepted host:port string, host, ":" and the decimal     *)
(* rendering of the port give the string back up to surrounding            *)
(* whitespace; for an accepted bracketed input the host is the text        *)
(* between the brackets.                                                   *)
C14_RoundTrip ==
    (Returned("parse_target") /\ Unwrap(ret).ok) =>
        /\ HostPortForm =>
              Unwrap(ret).val.host \o <<":">> \o ToDecimal(Unwrap(Unwrap(ret).val.port)) = Arg
        /\ (Arg # <<>> /\ Head(Arg) = "[") => Unwrap(ret).val.host = BetweenBrackets

(* -------------------------- resolver claims ---------------------------- *)
Has(l, fam) == \E i \in 1..Len(l) : l[i].fam = fam
FirstOf(l, fam) ==
    l[CHOOSE i \in 1..Len(l) : l[i].fam = fam /\ \A j \in 1..(i - 1) : l[j].fam # fam]
IsDnsError(r) == ~r.ok /\ r.kind = "Dns"

(* C15: with ipv6_only = false resolve_ip returns the first IPv4 address   *)
(* of the resolved list when there is one, and an IPv6 address only when   *)
(* there is no IPv4 one; with ipv6_only = true it returns the first IPv6   *)
(* address or a Dns error when there is none; an empty list gives a Dns    *)
(* error.                                                                  *)
C15_ResolverPreference ==
    (Returned("resolve_ip") /\ call.args[1].ok) =>
        LET l == call.args[1].val
            ipv6_only == call.args[2]
        IN  /\ (~ipv6_only /\ Has(l, "v4")) => Unwrap(ret) = Ok(FirstOf(l, "v4"))
            /\ (~ipv6_only /\ ~Has(l, "v4") /\ Has(l, "v6")) =>
                  Unwrap(ret) = Ok(FirstOf(l, "v6"))
            /\ (ipv6_only /\ Has(l, "v6")) => Unwrap(ret) = Ok(FirstOf(l, "v6"))
            /\ (ipv6_only /\ ~Has(l, "v6")) => IsDnsError(Unwrap(ret))
            /\ l = <<>> => IsDnsError(Unwrap(ret))

C15_Witness ==
    /\ Returned("resolve_ip")
    /\ call.args[1].ok
    /\ ~call.args[2]
    /\ Len(call.args[1].val) >= 2
    /\ call.args[1].val[1].fam = "v6"
    /\ call.args[1].val[2].fam = "v4"
    /\ Unwrap(ret) = Ok(call.args[1].val[2])

(* --------------------------- sampling claims --------------------------- *)
(* C16: in plugin mode a failed iteration does not abort the sampling      *)
(* loop: while iterations of the run remain, the program has not exited.   *)
C16_PluginFailureContinues ==
    (args.mode = "single" /\ args.plugin /\ ~args.infinite /\ LastProbeFailed
       /\ iterations < args.count) =>
        pc # "exited"

(* ----------------------------- probe claims ---------------------------- *)
WireOfCall == call.args[Len(call.args)]
DnsOfCall == call.args[Len(call.args) - 1]

(* the attempt reached the wire and ran out of its timeout budget: an NTP  *)
(* or an NTS exchange of query_one (the simulated PTP probe of             *)
(* query_target completes at once and has no such attempt)                 *)
AttemptTimedOut ==
    /\ Returned("query_one")
    /\ ProbeSent(Unwrap(ret))
    /\ DnsOfCall.ok
    /\ DnsOfCall.val # <<>>
    /\ WireOfCall.behaviour = "elapsed"

(* C17: a probe attempt that exceeds its timeout surfaces as the timeout   *)
(* error kind under every protocol (NTP, NTS, PTP), which the exit-code    *)
(* mapping turns into the interactive exit code 3.  The attempts that can  *)
(* exceed a timeout are those of NTP and NTS.                              *)
C17_UniformTimeout ==
    AttemptTimedOut =>
        /\ Unwrap(Unwrap(ret).result) = Err("Network", "timeout")
        /\ handle_error(Unwrap(Unwrap(ret).result)) = 3

(* C18: for a target that parses as an IPv6 literal the host is resolved   *)
(* in IPv6-only mode whatever the caller's ipv6 preference, in the NTP and *)
(* the PTP query paths alike.                                              *)
C18_LiteralForcesIpv6Resolution ==
    (/\ (Returned("query_one") /\ ~call.args[3]) \/ Returned("query_target")
     /\ parse_target(call.args[1]).ok
     /\ parse_target(call.args[1]).val.is_ipv6_literal
     /\ IsSome(Unwrap(ret).resolve_mode)) =>
        Unwrap(ret).resolve_mode = Some(TRUE)

(* --------------------------- summary claims ---------------------------- *)
DriftReported == \E k \in 1..Len(out) : out[k].ev = "drift"
SeriesWithSamples == {name \in DOMAIN all_map : Len(all_map[name]) >= 1}

(* C19: in compare mode the max average drift is reported only when more   *)
(* than one target has at least one sample; with a single series in the    *)
(* summary no drift is reported, in the text as in the JSON summary.       *)
C19_DriftNeedsTwoSeries ==
    (args.mode = "compare" /\ pc = "exited" /\ DriftReported) =>
        Cardinality(SeriesWithSamples) > 1

(* -------------------------- statistics claims -------------------------- *)
Orderings(k) == {p \in [1..k -> 1..k] : \A i, j \in 1..k : p[i] = p[j] => i = j}
Reordered(series, p) == [i \in 1..Len(series) |-> series[p[i]]]

(* C20: for a non-empty series, count is its length, offset_min and        *)
(* offset_max are its least and greatest offset, the averages are means,   *)
(* so offset_min <= offset_avg <= offset_max, and the result is the same   *)
(* for the samples in any order.                                           *)
C20_StatsReduction ==
    Returned("compute_stats") =>
        LET series == call.args[1]
            st == Unwrap(ret)
        IN  /\ st.count = Len(series)
            /\ \E i \in 1..Len(series) : st.offset_min = series[i].offset_ms
            /\ \A i \in 1..Len(series) : f64_ge(series[i].offset_ms, st.offset_min)
            /\ \E i \in 1..Len(series) : st.offset_max = series[i].offset_ms
            /\ \A i \in 1..Len(series) : f64_ge(st.offset_max, series[i].offset_ms)
            /\ f64_ge(st.offset_avg, st.offset_min)
            /\ f64_ge(st.offset_max, st.offset_avg)
            /\ \A p \in Orderings(Len(series)) :
                  compute_stats(Reordered(series, p)) = st
(* C21: NtsErrorKind::plugin_exit_code returns 2 or 3 for every kind, never *)
(* 0 or 1: 2 exactly for aead_failure, missing_authenticator,               *)
(* unauthenticated_response, invalid_unique_id and invalid_origin_timestamp,*)
(* 3 for every other kind.                                                  *)
SecurityCriticalKinds ==
    {"aead_failure", "missing_authenticator", "unauthenticated_response",
     "invalid_unique_id", "invalid_origin_timestamp"}

C21_NtsPluginExitCodes ==
    Returned("NtsErrorKind::plugin_exit_code") =>
        /\ Unwrap(ret) \in {2, 3}
        /\ Unwrap(ret) = 2 <=> call.args[1] \in SecurityCriticalKinds
        /\ Unwrap(ret) = 3 <=> call.args[1] \notin SecurityCriticalKinds

C21_Witness ==
    /\ Returned("NtsErrorKind::plugin_exit_code")
    /\ call.args[1] = "invalid_origin_timestamp"
    /\ Unwrap(ret) = 2

(* C22: compare_many returns nothing, neither results nor an error, before *)
(* the probe of every target has completed; a target that fails early does *)
(* not cancel or abandon the probes still in flight; the results are read  *)
(* only after the barrier.                                                 *)
AllJoined ==
    /\ \A i \in 1..Len(futs) : futs[i].pc = "done" /\ IsSome(futs[i].result)
    /\ Len(order) = Len(futs)
    /\ \A i \in 1..Len(futs) : \E k \in 1..Len(order) : order[k] = i

InFlight(i) == pc = "joining" /\ futs[i].pc = "inflight"

KeptOrCompleted(i) ==
    \/ pc' = "joining" /\ futs'[i] = futs[i]
    \/ pc' = "joining" /\ futs'[i].pc = "done" /\ IsSome(futs'[i].result)

C22_JoinBarrier ==
    /\ [](IsSome(batch) \/ pc = "returned" => AllJoined)
    /\ [][\A i \in 1..Len(futs) : InFlight(i) => KeptOrCompleted(i)]_vars

C22_Witness ==
    /\ pc = "returned"
    /\ IsSome(batch) /\ ~Unwrap(batch).ok
    /\ Len(futs) >= 2
    /\ AllJoined
    /\ ~Unwrap(futs[order[1]].result).ok
    /\ Unwrap(futs[order[Len(order)]].result).ok

(* C23: cancellation is observed only in the sleep between two samples of  *)
(* an infinite run.  An interrupt that arrives while a probe is in flight  *)
(* never aborts the probe: the step that ends the in-flight state records  *)
(* its sample(s) or handles its error.  A fixed-count run is never         *)
(* cancelled, its sleep is not raced against the signal.                   *)
Samples == Len(all) + TotalLen(all_map, DOMAIN all_map)

OutcomeHandled ==
    \/ /\ Samples' = Samples + Len(targets)
       /\ pc' \in {"sleeping", "after_loop"}
    \/ /\ pc' = "exited"
       /\ Len(out') = Len(out) + 1
       /\ out'[Len(out')].ev = "error"

CancelledInSleepOnly ==
    cancelled' # cancelled =>
        /\ pc = "sleeping" /\ args.infinite
        /\ cancelled' /\ pc' = "after_loop"

ProbeRunsToCompletion ==
    pc = "inflight" =>
        \/ pc' = "inflight" /\ ~cancelled'
        \/ OutcomeHandled

C23_CancelOnlyInSleep ==
    /\ [](~args.infinite => ~cancelled)
    /\ [][CancelledInSleepOnly /\ ProbeRunsToCompletion]_vars

(* C24: compute_stats is never called on an empty series: in every run of  *)
(* the single-target loop and of the compare loop (interactive or plugin,  *)
(* fixed count or infinite with cancellation) each call receives at least  *)
(* one sample.                                                             *)
C24_StatsNeverOnEmpty == \A series \in stats_calls : Len(series) >= 1

C24_Witness ==
    /\ pc = "exited"
    /\ \/ /\ args.mode = "single" /\ args.plugin /\ args.count = 0
          /\ \E series \in stats_calls : Len(series) = 1
       \/ /\ args.mode = "compare" /\ cancelled
          /\ Cardinality(stats_calls) = 2
          /\ \A series \in stats_calls : Len(series) = MaxCount

(* C25: no hidden retries and no DNS caching: every sampling iteration     *)
(* performs, per target, exactly one host resolution and at most one       *)
(* protocol probe; a failed attempt is never re-issued, so the probes sent *)
(* for a target never exceed the iterations started.                       *)
Ops(op, i, k) ==
    Cardinality({j \in 1..Len(net_log) :
                    net_log[j] = [op |-> op, target |-> i, iteration |-> k]})

RECURSIVE OpsUpTo(_, _, _)
OpsUpTo(op, i, k) == IF k = 0 THEN 0 ELSE Ops(op, i, k) + OpsUpTo(op, i, k - 1)

IterationOver(k) == k < iterations \/ (k = iterations /\ pc # "inflight")

NoRetry ==
    \A i \in 1..Len(targets) :
        /\ \A k \in 1..iterations : Ops("probe", i, k) <= 1 /\ Ops("resolve", i, k) <= 1
        /\ OpsUpTo("probe", i, iterations) <= iterations
        /\ \A j \in 1..Len(net_log) : net_log[j].iteration \in 1..iterations

C25_NoRetryNoCache ==
    /\ NoRetry
    /\ \A i \in 1..Len(targets) : \A k \in 1..iterations :
          IterationOver(k) => Ops("resolve", i, k) = 1

(* C25 as amended: at most one resolution and one probe per target and     *)
(* iteration; exactly one resolution when the target parses and, under     *)
(* NTS, the exchange succeeded, none when the target does not parse or the *)
(* NTS exchange failed; probes never exceed the iterations started.        *)
ResolvesIn(i, k) ==
    IF ~parse_target(targets[i]).ok THEN 0
    ELSE IF args.nts /\ k = iterations /\ IsSome(futs[i].result)
            /\ ~Unwrap(futs[i].result).ok /\ Unwrap(futs[i].result).kind = "Nts"
    THEN 0
    ELSE 1

C25_Amended ==
    /\ NoRetry
    /\ \A i \in 1..Len(targets) : \A k \in 1..iterations :
          IterationOver(k) => Ops("resolve", i, k) = ResolvesIn(i, k)

C25_Witness ==
    /\ pc = "exited" /\ exit_code = Some(0)
    /\ iterations = 2 /\ ~args.nts
    /\ \A i \in 1..Len(targets) : \A k \in 1..2 :
          Ops("resolve", i, k) = 1 /\ Ops("probe", i, k) = 1

(* C26: whenever control reaches the code after the single-target loop, in *)
(* any mode, the series is non-empty and as long as the number of          *)
(* iterations run, every failure having left the process from inside the   *)
(* loop; so the post-loop "no samples" UNKNOWN branch is never taken and   *)
(* all[0] and the average for --sync are defined.                          *)
AfterSingleLoop == pc = "after_loop" /\ args.mode = "single"

LeftFromInsideLoop == n = iterations - 1 /\ Len(all) = n

(* the run printed the UNKNOWN line or the error of a probe *)
ProbeFailed ==
    \E j \in 1..Len(out) :
        \/ out[j].word = "UNKNOWN"
        \/ out[j].ev = "error" /\ out[j].word \notin {"Permission", "Sys"}

C26_LoopExitInvariant ==
    /\ AfterSingleLoop =>
          /\ all # <<>>
          /\ Len(all) = iterations /\ Len(all) = n
          /\ average_probe(all).ok
          /\ compute_stats(all).count = Len(all)
    /\ (pc = "exited" /\ args.mode = "single" /\ iterations > 0) =>
          /\ \A j \in 1..Len(out) : out[j].ev # "panic"
          /\ ProbeFailed <=> LeftFromInsideLoop

C26_Witness ==
    /\ AfterSingleLoop
    /\ args.sync /\ ~args.dry_run
    /\ Len(all) = MaxCount /\ iterations = MaxCount

(* C27: the sampling loops are do-while loops: every run that passes       *)
(* validation and has a target issues at least one probe iteration; with   *)
(* count = 0 and not infinite the command is accepted, also with an        *)
(* interval other than the default, and behaves as with count = 1: one     *)
(* iteration, no sleep, then termination.                                  *)
Accepted == ~usage_error(args) /\ args.mode # "none"

ZeroCount == args.count = 0 /\ ~args.infinite

C27_DoWhileLoop ==
    /\ (Accepted /\ pc \in {"sleeping", "after_loop", "exited"}) => iterations >= 1
    /\ (ZeroCount /\ ~threshold_error(args) /\ ~combination_error(args)
          /\ ~sync_error(args)) => Accepted \/ args.mode = "none"
    /\ (ZeroCount /\ Accepted) =>
          /\ pc # "sleeping"
          /\ sleeps = 0
          /\ pc \in {"after_loop", "exited"} =>
                /\ iterations = 1
                /\ ~RunFailed => Samples = Len(targets)

C27_Witness ==
    /\ ZeroCount
    /\ args.interval # DefaultInterval
    /\ pc = "exited" /\ exit_code = Some(0)
    /\ iterations = 1 /\ Len(all) = 1

(* C28: when several targets of one compare_many call fail, the error      *)
(* returned is the one of the failing target with the lowest index in the  *)
(* input list, whatever the order in which the probes completed; the value *)
(* returned is a function of the per-target outcomes alone.                *)
Outcome(i) == Unwrap(futs[i].result)

Failing == {i \in 1..Len(futs) : ~Outcome(i).ok}

LowestFailing == CHOOSE i \in Failing : \A j \in Failing : i <= j

CompletedBefore(i, j) ==
    \E a, b \in 1..Len(order) : a < b /\ order[a] = i /\ order[b] = j

C28_DeterministicBatchError ==
    (pc = "returned" /\ IsSome(batch)) =>
        IF Failing = {}
        THEN Unwrap(batch) = Ok([i \in 1..Len(futs) |-> Outcome(i).val])
        ELSE Unwrap(batch) = Outcome(LowestFailing)

C28_Witness ==
    /\ pc = "returned" /\ IsSome(batch)
    /\ \E i, j \in Failing :
          /\ i < j
          /\ Outcome(i) # Outcome(j)
          /\ CompletedBefore(j, i)
          /\ Unwrap(batch) = Outcome(i)

(* C29: with --dry-run, or when the process is not root, the sync step      *)
(* never changes the system clock: step_to_utc returns before              *)
(* clock_settime.  The clock is stepped at most once per command, and only *)
(* after the sampling loop ended without failure.  --sync with --infinite  *)
(* or --compare is rejected before any probe.                              *)
ClockUntouched == sys_clock.settime_calls = 0 /\ sys_clock.steps = 0

LoopEndedWithoutFailure ==
    /\ pc = "exited"
    /\ ~ProbeFailed
    /\ n = iterations /\ Len(all) = iterations /\ iterations >= 1

C29_SyncSafety ==
    /\ (args.dry_run \/ ~sys_clock.root \/ ~args.sync) => ClockUntouched
    /\ sys_clock.settime_calls <= 1 /\ sys_clock.steps <= sys_clock.settime_calls
    /\ ~ClockUntouched => LoopEndedWithoutFailure
    /\ (args.sync /\ (args.infinite \/ args.mode = "compare")) =>
          /\ iterations = 0 /\ net_log = <<>>
          /\ pc = "exited" => exit_code = Some(2)

SyncBlockRan == \E j \in 1..Len(out) : out[j].ev = "sync"

C29_Witness ==
    /\ pc = "exited"
    /\ args.sync /\ SyncBlockRan
    /\ \/ ~args.dry_run /\ sys_clock.root /\ sys_clock.steps = 1 /\ Len(all) = MaxCount
       \/ args.dry_run /\ sys_clock.root /\ ClockUntouched
       \/ ~sys_clock.root /\ ClockUntouched

(* C30: after any sequence of update_server, update_server_error,          *)
(* start_new_cycle and handle_key calls on a TuiApp, total_queries equals  *)
(* successful_queries + failed_queries; an update that names a server not  *)
(* in the list leaves the whole TuiApp unchanged; once a quit key has set  *)
(* should_quit, no operation resets it.                                    *)
CountersAgree ==
    tui_app.stats.total_queries =
        tui_app.stats.successful_queries + tui_app.stats.failed_queries

Listed(server_name) ==
    \E i \in 1..Len(tui_app.servers) : tui_app.servers[i].name = server_name

UnknownServerIgnored ==
    (/\ call'.fn \in {"update_server", "update_server_error"}
     /\ ~Listed(call'.args[1])) => tui_app' = tui_app

QuitIsSticky == tui_app.should_quit => tui_app'.should_quit

C30_TuiCounters ==
    /\ [](pc = "tui" => CountersAgree)
    /\ [][pc = "tui" => UnknownServerIgnored /\ QuitIsSticky]_vars

C30_Witness ==
    /\ pc = "tui"
    /\ tui_app.should_quit
    /\ call.fn = "update_server_error" /\ ~Listed(call.args[1])
    /\ tui_app.stats.successful_queries >= 1
    /\ tui_app.stats.failed_queries >= 1
    /\ tui_app.stats.current_cycle >= 1

====
